---- MODULE Spec2Model ----
(***************************************************************************)
(* QRSecure (GSMS-B/ProjectQR): a state-machine model of the scan          *)
(* recorder, the analytics aggregator, the URL safety evaluator and the    *)
(* request handlers that drive them.                                       *)
(*                                                                         *)
(* Text is modelled as sequences of one-character strings so that          *)
(* startswith / find / "in" are computed as Python computes them.          *)
(***************************************************************************)
EXTENDS Integers, Sequences, FiniteSets, TLC

VARIABLES
    \* ---- URL safety evaluator (services/security.py) ----
    now,          \* time.time(), in seconds
    ticks,        \* number of clock advances so far (bounds the run)
    sb_configured,\* is_safe_browsing_configured()
    cache,        \* _security_cache: key -> entry
    vkind,        \* which function each caller called
    vpc,          \* position of each call
    vurl,         \* its url argument
    vreach,       \* its check_reachability argument
    vfmt,         \* result["details"]["format"]
    vres,         \* the result dict: is_safe, warnings, errors
    vsb,          \* what check_safe_browsing returned to it
    vpend,        \* the fresh API result check_safe_browsing is about to store
    vinvoked,     \* which checks the call has invoked so far
    vseen,        \* what the cache lookup of the call saw (entry found, its age, its result)
    \* ---- storage (models.py) ----
    urls,         \* the urls table: url_id -> row
    scans,        \* the scans table, in insertion order
    history,      \* the url_history table, in insertion order
    reports,      \* the reports table, in insertion order
    \* ---- request handlers (routes/) ----
    req,          \* each request in flight: its handler, position, session and response
    \* ---- analytics aggregator (services/analytics.py) ----
    agg,          \* a call of get_analytics_summary / get_scans_timeline
    top,          \* the top-10 grouping applied to a list of loaded scans
    \* ---- geolocation (services/geolocation.py) ----
    geo           \* a call of get_location_from_ip(_async)

\* now and ticks are the clock every component reads.
clockvars == <<now, ticks>>
valvars == <<sb_configured, cache, vkind, vpc, vurl, vreach, vfmt, vres,
             vsb, vpend, vinvoked, vseen>>
dbvars == <<urls, scans, history, reports>>

vars == <<clockvars, valvars, dbvars, req, agg, top, geo>>

-----------------------------------------------------------------------------
(* Text helpers: Python's str.startswith, "in", str.find and str.lower.    *)

StartsWith(s, p) == Len(s) >= Len(p) /\ SubSeq(s, 1, Len(p)) = p

Contains(s, p) ==
    \E i \in 1..(Len(s) - Len(p) + 1) : SubSeq(s, i, i + Len(p) - 1) = p

\* 1-based index of the first occurrence of character ch at or after
\* position from, 0 when there is none (str.find returns -1).
FindFrom(s, ch, from) ==
    LET hits == {i \in from..Len(s) : s[i] = ch}
    IN  IF hits = {} THEN 0 ELSE CHOOSE i \in hits : \A j \in hits : i <= j

LowerLetters == {"a","b","c","d","e","f","g","h","i","j","k","l","m",
                 "n","o","p","q","r","s","t","u","v","w","x","y","z"}
UpperLetters == {"A","D","H","J","P","T"}
Digits == {"0","1","2","3","4","5","6","7","8","9"}

LowerChar(c) ==
    CASE c = "A" -> "a" [] c = "D" -> "d" [] c = "H" -> "h"
      [] c = "J" -> "j" [] c = "P" -> "p" [] c = "T" -> "t"
      [] OTHER -> c

Lower(s) == [i \in 1..Len(s) |-> LowerChar(s[i])]

-----------------------------------------------------------------------------
(* urllib.parse.urlparse, as far as validate_url_format reads it: the      *)
(* scheme (lower-cased), the network location, and the ValueError raised   *)
(* for an unbalanced "[" or "]" in the network location.                   *)

SchemeChars == LowerLetters \cup UpperLetters \cup Digits \cup {"+", "-", "."}

urlparse(url) ==
    LET i == FindFrom(url, ":", 1)
        hasScheme == /\ i > 1
                     /\ url[1] \in LowerLetters \cup UpperLetters
                     /\ \A k \in 1..(i - 1) : url[k] \in SchemeChars
        scheme == IF hasScheme THEN Lower(SubSeq(url, 1, i - 1)) ELSE <<>>
        rest == IF hasScheme THEN SubSeq(url, i + 1, Len(url)) ELSE url
        hasNet == StartsWith(rest, <<"/", "/">>)
        stops == {k \in 3..Len(rest) : rest[k] \in {"/", "?", "#"}}
        delim == IF stops = {} THEN Len(rest) + 1
                 ELSE CHOOSE k \in stops : \A j \in stops : k <= j
        netloc == IF hasNet THEN SubSeq(rest, 3, delim - 1) ELSE <<>>
        open == \E k \in 1..Len(netloc) : netloc[k] = "["
        close == \E k \in 1..Len(netloc) : netloc[k] = "]"
    IN  [raises |-> hasNet /\ (open # close), scheme |-> scheme, netloc |-> netloc]

S_http == <<"h","t","t","p">>
S_https == <<"h","t","t","p","s">>
P_javascript == <<"j","a","v","a","s","c","r","i","p","t",":">>
P_data == <<"d","a","t","a",":">>
P_vbscript == <<"v","b","s","c","r","i","p","t",":">>
P_file == <<"f","i","l","e",":","/","/">>

\* suspicious_patterns, in the order the loop tries them
suspicious_patterns == <<P_javascript, P_data, P_vbscript, P_file>>

\* A variant that looks for the patterns in the text as given.
ValidateUrlFormatCaseSensitive(url) ==
    LET parsed == urlparse(url)
        hits == {k \in 1..Len(suspicious_patterns) : Contains(url, suspicious_patterns[k])}
        first == CHOOSE k \in hits : \A j \in hits : k <= j
    IN  IF parsed.raises
          THEN [is_valid |-> FALSE, reason |-> <<"Invalid URL: ", "Invalid IPv6 URL">>]
        ELSE IF parsed.scheme = <<>>
          THEN [is_valid |-> FALSE, reason |-> <<"Missing URL scheme (http/https)">>]
        ELSE IF parsed.scheme \notin {S_http, S_https}
          THEN [is_valid |-> FALSE, reason |-> <<"Invalid scheme. Only http/https allowed">>]
        ELSE IF parsed.netloc = <<>>
          THEN [is_valid |-> FALSE, reason |-> <<"Missing domain">>]
        ELSE IF hits # {}
          THEN [is_valid |-> FALSE,
                reason |-> <<"Suspicious URL pattern detected: ", suspicious_patterns[first]>>]
        ELSE [is_valid |-> TRUE, reason |-> <<>>]

\* security.py:36-69
validate_url_format(url) ==
    LET parsed == urlparse(url)
        low == Lower(url)
        hits == {k \in 1..Len(suspicious_patterns) : Contains(low, suspicious_patterns[k])}
        first == CHOOSE k \in hits : \A j \in hits : k <= j
    IN  IF parsed.raises
          THEN [is_valid |-> FALSE, reason |-> <<"Invalid URL: ", "Invalid IPv6 URL">>]
        ELSE IF parsed.scheme = <<>>
          THEN [is_valid |-> FALSE, reason |-> <<"Missing URL scheme (http/https)">>]
        ELSE IF parsed.scheme \notin {S_http, S_https}
          THEN [is_valid |-> FALSE, reason |-> <<"Invalid scheme. Only http/https allowed">>]
        ELSE IF parsed.netloc = <<>>
          THEN [is_valid |-> FALSE, reason |-> <<"Missing domain">>]
        ELSE IF hits # {}
          THEN [is_valid |-> FALSE,
                reason |-> <<"Suspicious URL pattern detected: ", suspicious_patterns[first]>>]
        ELSE [is_valid |-> TRUE, reason |-> <<>>]

-----------------------------------------------------------------------------
(* The URLs the evaluator is exercised on.                                 *)
U_http == <<"h","t","t","p",":","/","/","a">>   \* http://a
U_https == <<"h","t","t","p","s",":","/","/","a">>   \* https://a
U_js == <<"j","a","v","a","s","c","r","i","p","t",":","a">>   \* javascript:a
U_Js == <<"J","a","v","a","s","c","r","i","p","t",":","a">>   \* Javascript:a
U_data == <<"d","a","t","a",":","a">>   \* data:a
U_vbs == <<"v","b","s","c","r","i","p","t",":","a">>   \* vbscript:a
U_file == <<"f","i","l","e",":","/","/","a">>   \* file://a
U_ftp == <<"f","t","p",":","/","/","a">>   \* ftp://a
U_bare == <<"a","/","b">>   \* a/b
U_rel == <<"/","/","a">>   \* //a
U_colon == <<":","a">>   \* :a
U_nonet == <<"h","t","t","p",":","a">>   \* http:a
U_pat == <<"h","t","t","p",":","/","/","a","/","d","a","t","a",":","x">>   \* http://a/data:x
U_pat2 == <<"h","t","t","p","s",":","/","/","a","?","j","a","v","a","s","c","r","i","p","t",":","x">>   \* https://a?javascript:x
U_br == <<"h","t","t","p",":","/","/","[","a">>   \* http://[a
U_PAT == <<"H","T","T","P",":","/","/","a","/","D","A","T","A",":","x">>   \* HTTP://a/DATA:x
U_path == <<"h","t","t","p","s",":","/","/","a","/","d","a","t","a","?","x","#","y">>   \* https://a/data?x#y

Urls == {U_http, U_https, U_js, U_Js, U_data, U_vbs, U_file, U_ftp, U_bare, U_rel, U_colon, U_nonet, U_pat, U_pat2, U_br, U_PAT, U_path}

\* The sample URLs whose scheme is neither http nor https (written out by
\* hand, not computed with urlparse).
DisallowedSchemeUrls == {U_js, U_Js, U_data, U_vbs, U_file, U_ftp, U_bare, U_rel, U_colon}

-----------------------------------------------------------------------------
(* The threat-list cache (security.py:21-33).                              *)

CACHE_TTL == 3600

\* Concurrent callers of the evaluator the model provides for.
MaxCallers == 2
Callers == 1..MaxCallers

\* time.time() when the model starts, and how often the clock may advance.
StartTime == 100000
MaxTicks == 3
TickSteps == {1, CACHE_TTL - 1}

\* hashlib.md5(url.encode()).hexdigest(): one key per distinct text.
_get_cache_key(url) == <<"md5", url>>

\* A result dict of check_safe_browsing.
SbResult(safe, threats, note) == [is_safe |-> safe, threats |-> threats, note |-> note]
NoResult == SbResult(TRUE, <<>>, "unset")

\* A cache entry is a dict that may hold 'safe_browsing' and 'timestamp'.
EmptyEntry == [has_sb |-> FALSE, safe_browsing |-> NoResult, has_ts |-> FALSE, timestamp |-> 0]

\* cache_entry.get('timestamp', 0)
EntryTimestamp(entry) == IF entry.has_ts THEN entry.timestamp ELSE 0

\* Mutant: an entry exactly one hour old still counts as valid.
IsCacheValidInclusive(entry, t) == t - EntryTimestamp(entry) <= CACHE_TTL

_is_cache_valid(entry, t) == t - EntryTimestamp(entry) < CACHE_TTL

\* security.py:135: cache_key in _security_cache and _is_cache_valid(...)
CacheHit(c, key, t) == key \in DOMAIN c /\ _is_cache_valid(c[key], t)

\* A variant that stamps a new entry before its result is written.
CacheEnsureEntryStamped(c, key) ==
    IF key \in DOMAIN c THEN c
    ELSE [k \in DOMAIN c \cup {key} |->
             IF k = key THEN [EmptyEntry EXCEPT !.has_ts = TRUE, !.timestamp = now]
             ELSE c[k]]

\* security.py:178-179
CacheEnsureEntry(c, key) ==
    IF key \in DOMAIN c THEN c
    ELSE [k \in DOMAIN c \cup {key} |-> IF k = key THEN EmptyEntry ELSE c[k]]

\* security.py:180
CacheSetResult(c, key, result) ==
    [c EXCEPT ![key] = [@ EXCEPT !.has_sb = TRUE, !.safe_browsing = result]]

\* security.py:181
CacheSetTimestamp(c, key, t) ==
    [c EXCEPT ![key] = [@ EXCEPT !.has_ts = TRUE, !.timestamp = t]]

\* What requests.post + response.json() can yield (security.py:159-175, 185).
ApiOutcomes == {"timeout", "status_500", "bad_json", "clean", "match"}

\* A variant that stores what it returns after an API error.
ApiResultStoringErrors(outcome) ==
    CASE outcome = "clean" ->
           [fresh |-> TRUE, result |-> SbResult(TRUE, <<>>, "none")]
      [] outcome = "match" ->
           [fresh |-> TRUE, result |-> SbResult(FALSE, <<"MALWARE">>, "none")]
      [] outcome = "status_500" ->
           [fresh |-> TRUE, result |-> SbResult(TRUE, <<>>, "API error: 500")]
      [] OTHER ->
           [fresh |-> TRUE, result |-> SbResult(TRUE, <<>>, "error")]

\* The value check_safe_browsing computes from the API's answer; fresh is
\* TRUE when it goes on to store it (security.py:166-186).
ApiResult(outcome) ==
    CASE outcome = "clean" ->
           [fresh |-> TRUE, result |-> SbResult(TRUE, <<>>, "none")]
      [] outcome = "match" ->
           [fresh |-> TRUE, result |-> SbResult(FALSE, <<"MALWARE">>, "none")]
      [] outcome = "status_500" ->
           [fresh |-> FALSE, result |-> SbResult(TRUE, <<>>, "API error: 500")]
      [] OTHER ->
           [fresh |-> FALSE, result |-> SbResult(TRUE, <<>>, "error")]

-----------------------------------------------------------------------------
(* The other checks of the evaluator, as functions of what the network     *)
(* answers (security.py:72-116, 189-305).                                  *)

SslOutcomes == {"valid", "expired", "no_not_after", "verify_failed",
                "timeout", "gaierror", "error"}

\* check_ssl_certificate: has_valid says whether the dict holds 'is_valid'.
check_ssl_certificate(url, outcome) ==
    IF urlparse(url).scheme # S_https
      THEN [has_ssl |-> FALSE, has_valid |-> FALSE, is_valid |-> FALSE]
    ELSE CASE outcome \in {"valid", "no_not_after"} ->
                [has_ssl |-> TRUE, has_valid |-> TRUE, is_valid |-> TRUE]
           [] outcome \in {"expired", "verify_failed"} ->
                [has_ssl |-> TRUE, has_valid |-> TRUE, is_valid |-> FALSE]
           [] OTHER ->
                [has_ssl |-> FALSE, has_valid |-> FALSE, is_valid |-> FALSE]

\* Registration ages, in days, a WHOIS answer is drawn from.
AgeSamples == {-1, 0, 6, 7, 29, 30, 400}
WhoisOutcomes == {[ok |-> FALSE, days |-> 0]} \cup {[ok |-> TRUE, days |-> a] : a \in AgeSamples}

\* A variant that still calls a domain new on its thirtieth day.
CheckDomainAgeInclusive(whois) ==
    IF whois.ok
      THEN [has_age |-> TRUE, age_days |-> whois.days,
            is_new |-> whois.days <= 30, is_suspicious |-> whois.days < 7]
      ELSE [has_age |-> FALSE, age_days |-> 0, is_new |-> FALSE, is_suspicious |-> FALSE]

\* check_domain_age: has_age is FALSE for {"age_days": None, "error": ...}.
check_domain_age(whois) ==
    IF whois.ok
      THEN [has_age |-> TRUE, age_days |-> whois.days,
            is_new |-> whois.days < 30, is_suspicious |-> whois.days < 7]
      ELSE [has_age |-> FALSE, age_days |-> 0, is_new |-> FALSE, is_suspicious |-> FALSE]

ReachOutcomes == {"status_200", "status_404", "timeout", "ssl_error",
                  "connection_error", "error"}

check_url_reachable(outcome) ==
    CASE outcome = "status_200" -> [is_reachable |-> TRUE, error |-> "None"]
      [] outcome = "status_404" -> [is_reachable |-> FALSE, error |-> "None"]
      [] outcome = "timeout" -> [is_reachable |-> FALSE, error |-> "Connection timeout"]
      [] outcome = "ssl_error" -> [is_reachable |-> FALSE, error |-> "SSL certificate error"]
      [] outcome = "connection_error" ->
           [is_reachable |-> FALSE, error |-> "Could not connect to server"]
      [] OTHER -> [is_reachable |-> FALSE, error |-> "error"]

-----------------------------------------------------------------------------
(* validate_url (security.py:308-370): the result dict and what each       *)
(* stage does to it.                                                       *)

\* details holds the domain-age answer once the stage has run.
NewResult == [is_safe |-> TRUE, warnings |-> <<>>, errors |-> <<>>,
              details |-> [domain_age |-> <<>>]]

W_no_https == <<"No HTTPS (connection not encrypted)">>
W_ssl_issue == <<"SSL certificate issue detected">>
W_age_7 == <<"Domain registered less than 7 days ago">>
W_age_30 == <<"Domain registered less than 30 days ago">>
W_unreachable(err) == <<"URL may not be reachable: ", err>>
E_flagged(threats) == <<"Flagged as malicious: ", threats>>

\* Mutant: a format failure is recorded but the call goes on to the other
\* checks.
FormatStageNoReturn(url) ==
    LET f == validate_url_format(url)
    IN  IF ~f.is_valid
          THEN [res |-> [NewResult EXCEPT !.is_safe = FALSE, !.errors = <<f.reason>>],
                next |-> "sb_enter"]
          ELSE [res |-> NewResult, next |-> "sb_enter"]

\* security.py:327-334: the result after format validation, and where the
\* call goes next.
FormatStage(url) ==
    LET f == validate_url_format(url)
    IN  IF ~f.is_valid
          THEN [res |-> [NewResult EXCEPT !.is_safe = FALSE, !.errors = <<f.reason>>],
                next |-> "done"]
          ELSE [res |-> NewResult, next |-> "sb_enter"]

\* security.py:340-342
ApplySafeBrowsing(res, sb) ==
    IF ~sb.is_safe
      THEN [res EXCEPT !.is_safe = FALSE, !.errors = Append(@, E_flagged(sb.threats))]
      ELSE res

\* Mutant: a bad certificate blocks the URL.
ApplySslBlocking(res, ssl) ==
    IF ~ssl.has_ssl
      THEN [res EXCEPT !.warnings = Append(@, W_no_https)]
    ELSE IF ssl.has_valid /\ ~ssl.is_valid
      THEN [res EXCEPT !.is_safe = FALSE, !.errors = Append(@, W_ssl_issue)]
    ELSE res

\* security.py:348-351
ApplySsl(res, ssl) ==
    IF ~ssl.has_ssl
      THEN [res EXCEPT !.warnings = Append(@, W_no_https)]
    ELSE IF ssl.has_valid /\ ~ssl.is_valid
      THEN [res EXCEPT !.warnings = Append(@, W_ssl_issue)]
    ELSE res

\* security.py:357-360
ApplyDomainAge(res, age) ==
    IF age.is_suspicious
      THEN [res EXCEPT !.warnings = Append(@, W_age_7)]
    ELSE IF age.is_new
      THEN [res EXCEPT !.warnings = Append(@, W_age_30)]
    ELSE res

\* security.py:367-368
ApplyReachability(res, reachable) ==
    IF ~reachable.is_reachable
      THEN [res EXCEPT !.warnings = Append(@, W_unreachable(reachable.error))]
      ELSE res

-----------------------------------------------------------------------------
(* The evaluator's steps.  A call c of validate_url moves                  *)
(*   idle -> (format) -> sb_enter -> [sb_api -> sb_store_entry ->          *)
(*   sb_store_result -> sb_store_ts] -> after_sb -> ssl -> age -> [reach]  *)
(*   -> done -> idle,                                                      *)
(* with the sb_* positions inside check_safe_browsing.                     *)

SeenNone == [looked |-> FALSE, found |-> FALSE, age |-> 0, stored |-> NoResult]

\* The components a specification leaves out stay in these states.
None == "<None>"

AggIdle == [pc |-> "idle", kind |-> "none", url_id |-> 0, days |-> 0, cutoff |-> 0,
            loaded |-> <<>>, timeline |-> <<>>]

TopIdle == [loaded |-> <<>>, done |-> FALSE, top_locations |-> <<>>,
            top_countries |-> <<>>]

GeoIdle == [pc |-> "idle", fn |-> "none", ip |-> [v |-> 0, name |-> <<>>],
            ip_address |-> <<>>, calls |-> {}, lite |-> [country |-> None],
            api_result |-> [country |-> None], result |-> [country |-> None]]

\* The requests the model follows, each with a database session of its own
\* (get_db, database.py:207-223).
Sessions == {"s1", "s2"}

\* An AsyncSession: the URL instance in its identity map, the columns of it
\* that were assigned, the rows added and not yet flushed, and whether its
\* instances are expired.
SessionFresh ==
    [url |-> [url_id |-> 0], dirty |-> {}, new_urls |-> <<>>, new_scans |-> <<>>,
     new_history |-> <<>>, new_reports |-> <<>>, expired |-> FALSE]

NoResponse == [status |-> 0]

\* A QRUpdateRequest with every field left out (routes/qr.py:41-46).
NoBody ==
    [url |-> <<>>, show_preview |-> <<>>, analytics_enabled |-> <<>>, is_active |-> <<>>]

RequestIdle ==
    [pc |-> "idle", op |-> "none", short_code |-> None, user |-> None,
     session |-> SessionFresh, response |-> NoResponse,
     before |-> [scans |-> 0, total_scans |-> 0], enrichment |-> [ua |-> "none"],
     scan_error |-> FALSE, days |-> 0, body |-> NoBody]
\* before and enrichment are kept for the properties only: the tables as
\* the handler, and then log_scan, found them, and the outcomes its
\* enrichment steps met.  days is the query parameter of the analytics
\* routes and body the request body of update_qr_code.

ReqIdle == [s \in Sessions |-> RequestIdle]

StorageEmpty ==
    /\ urls = <<>>
    /\ scans = <<>>
    /\ history = <<>>
    /\ reports = <<>>

EvaluatorIdle ==
    /\ sb_configured = FALSE
    /\ cache = <<>>
    /\ vkind = [c \in Callers |-> "none"]
    /\ vpc = [c \in Callers |-> "idle"]
    /\ vurl = [c \in Callers |-> U_http]
    /\ vreach = [c \in Callers |-> FALSE]
    /\ vfmt = [c \in Callers |-> [is_valid |-> TRUE, reason |-> <<>>]]
    /\ vres = [c \in Callers |-> NewResult]
    /\ vsb = [c \in Callers |-> NoResult]
    /\ vpend = [c \in Callers |-> NoResult]
    /\ vinvoked = [c \in Callers |-> {}]
    /\ vseen = [c \in Callers |-> SeenNone]

ValInit ==
    /\ StorageEmpty
    /\ req = ReqIdle
    /\ agg = AggIdle
    /\ top = TopIdle
    /\ geo = GeoIdle
    /\ now = StartTime
    /\ ticks = 0
    /\ sb_configured \in BOOLEAN
    /\ cache = <<>>
    /\ vkind = [c \in Callers |-> "none"]
    /\ vpc = [c \in Callers |-> "idle"]
    /\ vurl = [c \in Callers |-> U_http]
    /\ vreach = [c \in Callers |-> FALSE]
    /\ vfmt = [c \in Callers |-> [is_valid |-> TRUE, reason |-> <<>>]]
    /\ vres = [c \in Callers |-> NewResult]
    /\ vsb = [c \in Callers |-> NoResult]
    /\ vpend = [c \in Callers |-> NoResult]
    /\ vinvoked = [c \in Callers |-> {}]
    /\ vseen = [c \in Callers |-> SeenNone]

\* The clock advances.  Only check_safe_browsing reads it, so it is held
\* still while a call is past that stage.
InClockReadingStage(c) ==
    vpc[c] \in {"idle", "sb_enter", "sb_api", "sb_store_entry",
                "sb_store_result", "sb_store_ts"}

Tick ==
    /\ ticks < MaxTicks
    /\ \A c \in Callers : InClockReadingStage(c)
    /\ \E d \in TickSteps : now' = now + d
    /\ ticks' = ticks + 1
    /\ UNCHANGED <<dbvars, req, agg, top, geo>>
    /\ UNCHANGED <<sb_configured, cache, vkind, vpc, vurl, vreach, vfmt, vres, vsb,
                   vpend, vinvoked, vseen>>

\* validate_url is called: security.py:319-334.
ValStart(c) ==
    /\ vpc[c] = "idle"
    /\ \E url \in Urls, reach \in BOOLEAN :
         /\ vurl' = [vurl EXCEPT ![c] = url]
         /\ vreach' = [vreach EXCEPT ![c] = reach]
         /\ vfmt' = [vfmt EXCEPT ![c] = validate_url_format(url)]
         /\ vres' = [vres EXCEPT ![c] = FormatStage(url).res]
         /\ vpc' = [vpc EXCEPT ![c] = FormatStage(url).next]
    /\ vkind' = [vkind EXCEPT ![c] = "validate_url"]
    /\ vinvoked' = [vinvoked EXCEPT ![c] = {"format"}]
    /\ UNCHANGED <<dbvars, req, agg, top, geo>>
    /\ UNCHANGED <<now, ticks, sb_configured, cache, vsb, vpend, vseen>>

\* check_safe_browsing is called on its own, as get_security_info calls it
\* (security.py:379), with a URL that passed format validation.
SbUrls == {U_http, U_https}

SbCallFor(c, offered) ==
    /\ vpc[c] = "idle"
    /\ \E url \in offered : vurl' = [vurl EXCEPT ![c] = url]
    /\ vkind' = [vkind EXCEPT ![c] = "check_safe_browsing"]
    /\ vpc' = [vpc EXCEPT ![c] = "sb_enter"]
    /\ UNCHANGED <<dbvars, req, agg, top, geo>>
    /\ UNCHANGED <<now, ticks, sb_configured, cache, vreach, vfmt, vres, vsb,
                   vpend, vinvoked, vseen>>

SbCall(c) == SbCallFor(c, SbUrls)

\* A variant in which a missing key counts against the URL.
UnconfiguredBlocks ==
    SbResult(FALSE, <<"UNCONFIGURED">>, "Safe Browsing API not configured")

\* security.py:127-131
UnconfiguredResult == SbResult(TRUE, <<>>, "Safe Browsing API not configured")

\* check_safe_browsing up to its cache lookup: security.py:126-136.
\* A valid entry without 'safe_browsing' raises KeyError out of the call.
SbEnter(c) ==
    /\ vpc[c] = "sb_enter"
    /\ vinvoked' = [vinvoked EXCEPT ![c] = @ \cup {"safe_browsing"}]
    /\ LET key == _get_cache_key(vurl[c])
       IN  IF ~sb_configured
             THEN /\ vsb' = [vsb EXCEPT ![c] = UnconfiguredResult]
                  /\ vpc' = [vpc EXCEPT ![c] = "after_sb"]
                  /\ vseen' = [vseen EXCEPT ![c] = SeenNone]
             ELSE /\ vseen' = [vseen EXCEPT ![c] =
                        IF key \in DOMAIN cache
                          THEN [looked |-> TRUE, found |-> TRUE,
                                age |-> now - EntryTimestamp(cache[key]),
                                stored |-> cache[key].safe_browsing]
                          ELSE [SeenNone EXCEPT !.looked = TRUE]]
                  /\ IF CacheHit(cache, key, now)
                       THEN IF cache[key].has_sb
                              THEN /\ vsb' = [vsb EXCEPT ![c] = cache[key].safe_browsing]
                                   /\ vpc' = [vpc EXCEPT ![c] = "after_sb"]
                              ELSE /\ vpc' = [vpc EXCEPT ![c] = "raised"]
                                   /\ UNCHANGED vsb
                       ELSE /\ vpc' = [vpc EXCEPT ![c] = "sb_api"]
                            /\ UNCHANGED vsb
    /\ UNCHANGED <<dbvars, req, agg, top, geo>>
    /\ UNCHANGED <<now, ticks, sb_configured, cache, vkind, vurl, vreach, vfmt, vres, vpend>>

\* The API request and the reading of its answer: security.py:159-175, 185-186.
SbApi(c) ==
    /\ vpc[c] = "sb_api"
    /\ vinvoked' = [vinvoked EXCEPT ![c] = @ \cup {"api"}]
    /\ \E outcome \in ApiOutcomes :
         LET r == ApiResult(outcome)
         IN  IF r.fresh
               THEN /\ vpend' = [vpend EXCEPT ![c] = r.result]
                    /\ vpc' = [vpc EXCEPT ![c] = "sb_store_entry"]
                    /\ UNCHANGED vsb
               ELSE /\ vsb' = [vsb EXCEPT ![c] = r.result]
                    /\ vpc' = [vpc EXCEPT ![c] = "after_sb"]
                    /\ UNCHANGED vpend
    /\ UNCHANGED <<dbvars, req, agg, top, geo>>
    /\ UNCHANGED <<now, ticks, sb_configured, cache, vkind, vurl, vreach, vfmt, vres, vseen>>

\* security.py:178-179
SbStoreEntry(c) ==
    /\ vpc[c] = "sb_store_entry"
    /\ cache' = CacheEnsureEntry(cache, _get_cache_key(vurl[c]))
    /\ vpc' = [vpc EXCEPT ![c] = "sb_store_result"]
    /\ UNCHANGED <<dbvars, req, agg, top, geo>>
    /\ UNCHANGED <<now, ticks, sb_configured, vkind, vurl, vreach, vfmt, vres, vsb,
                   vpend, vinvoked, vseen>>

\* security.py:180
SbStoreResult(c) ==
    /\ vpc[c] = "sb_store_result"
    /\ cache' = CacheSetResult(cache, _get_cache_key(vurl[c]), vpend[c])
    /\ vpc' = [vpc EXCEPT ![c] = "sb_store_ts"]
    /\ UNCHANGED <<dbvars, req, agg, top, geo>>
    /\ UNCHANGED <<now, ticks, sb_configured, vkind, vurl, vreach, vfmt, vres, vsb,
                   vpend, vinvoked, vseen>>

\* security.py:181-183
SbStoreTs(c) ==
    /\ vpc[c] = "sb_store_ts"
    /\ cache' = CacheSetTimestamp(cache, _get_cache_key(vurl[c]), now)
    /\ vsb' = [vsb EXCEPT ![c] = vpend[c]]
    /\ vpc' = [vpc EXCEPT ![c] = "after_sb"]
    /\ UNCHANGED <<dbvars, req, agg, top, geo>>
    /\ UNCHANGED <<now, ticks, sb_configured, vkind, vurl, vreach, vfmt, vres,
                   vpend, vinvoked, vseen>>

\* security.py:337-342
ValAfterSb(c) ==
    /\ vpc[c] = "after_sb"
    /\ vkind[c] = "validate_url"
    /\ vres' = [vres EXCEPT ![c] = ApplySafeBrowsing(@, vsb[c])]
    /\ vpc' = [vpc EXCEPT ![c] = "ssl"]
    /\ vpend' = [vpend EXCEPT ![c] = NoResult]
    /\ vseen' = [vseen EXCEPT ![c] = SeenNone]
    /\ UNCHANGED <<dbvars, req, agg, top, geo>>
    /\ UNCHANGED <<now, ticks, sb_configured, cache, vkind, vurl, vreach, vfmt, vsb,
                   vinvoked>>

\* security.py:344-351
ValSsl(c) ==
    /\ vpc[c] = "ssl"
    /\ \E outcome \in SslOutcomes :
         vres' = [vres EXCEPT ![c] = ApplySsl(@, check_ssl_certificate(vurl[c], outcome))]
    /\ vinvoked' = [vinvoked EXCEPT ![c] = @ \cup {"ssl"}]
    /\ vpc' = [vpc EXCEPT ![c] = "age"]
    /\ UNCHANGED <<dbvars, req, agg, top, geo>>
    /\ UNCHANGED <<now, ticks, sb_configured, cache, vkind, vurl, vreach, vfmt, vsb,
                   vpend, vseen>>

\* security.py:353-363
ValAge(c) ==
    /\ vpc[c] = "age"
    /\ \E whois \in WhoisOutcomes :
         LET domain_age == check_domain_age(whois)
         IN  vres' = [vres EXCEPT ![c] =
                         ApplyDomainAge([@ EXCEPT !.details.domain_age = <<domain_age>>],
                                        domain_age)]
    /\ vinvoked' = [vinvoked EXCEPT ![c] = @ \cup {"domain_age"}]
    /\ vpc' = [vpc EXCEPT ![c] = IF vreach[c] THEN "reach" ELSE "done"]
    /\ UNCHANGED <<dbvars, req, agg, top, geo>>
    /\ UNCHANGED <<now, ticks, sb_configured, cache, vkind, vurl, vreach, vfmt, vsb,
                   vpend, vseen>>

\* security.py:363-370
ValReach(c) ==
    /\ vpc[c] = "reach"
    /\ \E outcome \in ReachOutcomes :
         vres' = [vres EXCEPT ![c] = ApplyReachability(@, check_url_reachable(outcome))]
    /\ vinvoked' = [vinvoked EXCEPT ![c] = @ \cup {"reachability"}]
    /\ vpc' = [vpc EXCEPT ![c] = "done"]
    /\ UNCHANGED <<dbvars, req, agg, top, geo>>
    /\ UNCHANGED <<now, ticks, sb_configured, cache, vkind, vurl, vreach, vfmt, vsb,
                   vpend, vseen>>

\* The caller has the result; the next call starts afresh.
ValReturn(c) ==
    /\ \/ vpc[c] \in {"done", "raised"}
       \/ vpc[c] = "after_sb" /\ vkind[c] = "check_safe_browsing"
    /\ vpc' = [vpc EXCEPT ![c] = "idle"]
    /\ vkind' = [vkind EXCEPT ![c] = "none"]
    /\ vurl' = [vurl EXCEPT ![c] = U_http]
    /\ vreach' = [vreach EXCEPT ![c] = FALSE]
    /\ vfmt' = [vfmt EXCEPT ![c] = [is_valid |-> TRUE, reason |-> <<>>]]
    /\ vres' = [vres EXCEPT ![c] = NewResult]
    /\ vsb' = [vsb EXCEPT ![c] = NoResult]
    /\ vpend' = [vpend EXCEPT ![c] = NoResult]
    /\ vinvoked' = [vinvoked EXCEPT ![c] = {}]
    /\ vseen' = [vseen EXCEPT ![c] = SeenNone]
    /\ UNCHANGED <<dbvars, req, agg, top, geo>>
    /\ UNCHANGED <<now, ticks, sb_configured, cache>>

ValStep(c) ==
    \/ ValStart(c)
    \/ SbEnter(c)
    \/ SbApi(c)
    \/ SbStoreEntry(c)
    \/ SbStoreResult(c)
    \/ SbStoreTs(c)
    \/ ValAfterSb(c)
    \/ ValSsl(c)
    \/ ValAge(c)
    \/ ValReach(c)
    \/ ValReturn(c)

\* One caller at a time: validate_url is synchronous and the handlers that
\* call it run on one event loop (routes/qr.py:108, 265).
ValNext == ValStep(1)

SpecValidate == ValInit /\ [][ValNext]_vars

\* check_safe_browsing on its own, with the clock running.
SbStep(c) ==
    \/ SbCall(c)
    \/ SbEnter(c)
    \/ SbApi(c)
    \/ SbStoreEntry(c)
    \/ SbStoreResult(c)
    \/ SbStoreTs(c)
    \/ ValReturn(c)

CacheNext == Tick \/ SbStep(1)

SpecCache == ValInit /\ [][CacheNext]_vars

\* Two calls of check_safe_browsing side by side, as two worker threads
\* run them for one URL, interleaved statement by statement.
RaceStep(c) ==
    \/ SbCallFor(c, {U_https})
    \/ SbEnter(c)
    \/ SbApi(c)
    \/ SbStoreEntry(c)
    \/ SbStoreResult(c)
    \/ SbStoreTs(c)
    \/ ValReturn(c)

RaceNext == Tick \/ RaceStep(1) \/ RaceStep(2)

SpecRace == ValInit /\ [][RaceNext]_vars

-----------------------------------------------------------------------------
(* Properties of the URL safety evaluator.                                 *)

PastSafeBrowsing(c) ==
    vkind[c] = "validate_url" /\ vpc[c] \in {"ssl", "age", "reach", "done"}

\* C3: validate_url's is_safe is false exactly when format validation
\* failed or check_safe_browsing reported is_safe = false, and errors
\* holds exactly the format reason or the threat-list message; whatever
\* the TLS, domain-age and reachability checks answer, they change
\* neither is_safe nor errors.
C3_VerdictOnlyFormatOrThreatList ==
    \A c \in Callers :
        PastSafeBrowsing(c) =>
            /\ vres[c].is_safe = (vfmt[c].is_valid /\ vsb[c].is_safe)
            /\ vres[c].errors =
                   IF ~vfmt[c].is_valid THEN <<vfmt[c].reason>>
                   ELSE IF ~vsb[c].is_safe THEN <<E_flagged(vsb[c].threats)>>
                   ELSE <<>>

\* A call that met a bad certificate, a domain under 7 days old and an
\* unreachable host, and still returned is_safe = true with no error.
C3_Witness ==
    /\ vpc[1] = "done"
    /\ vres[1].is_safe
    /\ vres[1].errors = <<>>
    /\ vres[1].warnings = <<W_ssl_issue, W_age_7, W_unreachable("Connection timeout")>>

\* C4: a URL whose scheme is neither http nor https is rejected by
\* validate_url with the format reason as its only error, and the call
\* returns having invoked no check but format validation.
C4_DisallowedSchemeRejectedAtFormat ==
    \A c \in Callers :
        (vkind[c] = "validate_url" /\ vurl[c] \in DisallowedSchemeUrls) =>
            /\ vpc[c] = "done"
            /\ ~vfmt[c].is_valid
            /\ vfmt[c].reason \in {<<"Missing URL scheme (http/https)">>,
                                   <<"Invalid scheme. Only http/https allowed">>}
            /\ ~vres[c].is_safe
            /\ vres[c].errors = <<vfmt[c].reason>>
            /\ vres[c].warnings = <<>>
            /\ vinvoked[c] = {"format"}

C4_Witness ==
    /\ vpc[1] = "done"
    /\ vurl[1] = U_js
    /\ ~vres[1].is_safe
    /\ vres[1].errors = << <<"Invalid scheme. Only http/https allowed">> >>

\* C5: with the API configured, a lookup that finds an entry younger than
\* CACHE_TTL returns the stored result without calling the API; a lookup
\* that finds no entry, or one aged CACHE_TTL or more, calls the API, and
\* when that succeeds the entry holds the new result and the time of the
\* store.
C5_CacheReusedOnlyWithinTtl ==
    \A c \in Callers :
        (sb_configured /\ vkind[c] = "check_safe_browsing" /\ vseen[c].looked) =>
            LET young == vseen[c].found /\ vseen[c].age < CACHE_TTL
                key == _get_cache_key(vurl[c])
            IN  IF young
                  THEN /\ vpc[c] = "after_sb"
                       /\ vsb[c] = vseen[c].stored
                       /\ "api" \notin vinvoked[c]
                  ELSE /\ vpc[c] \in {"sb_api", "sb_store_entry", "sb_store_result",
                                      "sb_store_ts", "after_sb"}
                       /\ vpc[c] # "sb_api" => "api" \in vinvoked[c]
                       /\ (vpc[c] = "after_sb" /\ vsb[c].note = "none") =>
                              /\ key \in DOMAIN cache
                              /\ cache[key].has_sb /\ cache[key].safe_browsing = vsb[c]
                              /\ cache[key].has_ts /\ cache[key].timestamp = now

\* An entry exactly CACHE_TTL old was not reused: the API was asked and its
\* different answer replaced the stored one.
C5_Witness ==
    /\ sb_configured
    /\ vpc[1] = "after_sb"
    /\ vseen[1].found /\ vseen[1].age = CACHE_TTL
    /\ "api" \in vinvoked[1]
    /\ vsb[1] # vseen[1].stored
    /\ cache[_get_cache_key(vurl[1])].safe_browsing = vsb[1]
    /\ cache[_get_cache_key(vurl[1])].timestamp = now


-----------------------------------------------------------------------------
(* The analytics aggregator: services/analytics.py.                        *)
(*                                                                         *)
(* datetime.utcnow() is the clock `now`, in seconds; a date is the number  *)
(* of whole days since 1970-01-01 and strftime turns it into the calendar  *)
(* triple that "%Y-%m-%d" prints.                                          *)

SecondsPerDay == 86400

timedelta(days) == days * SecondsPerDay

date(t) == t \div SecondsPerDay

\* Year, month and day of the proleptic Gregorian calendar for day number d.
strftime(d) ==
    LET z    == d + 719468
        era  == z \div 146097
        doe  == z - era * 146097
        yoe  == (doe - (doe \div 1460) + (doe \div 36524) - (doe \div 146096)) \div 365
        doy  == doe - (365 * yoe + (yoe \div 4) - (yoe \div 100))
        mp   == (5 * doy + 2) \div 153
        dd   == doy - ((153 * mp + 2) \div 5) + 1
        mm   == IF mp < 10 THEN mp + 3 ELSE mp - 9
        yy   == yoe + era * 400 + (IF mm <= 2 THEN 1 ELSE 0)
    IN  <<yy, mm, dd>>

Reverse(s) == [i \in 1..Len(s) |-> s[Len(s) + 1 - i]]

\* A row of the scans table (models.py:172-252), with the columns the
\* aggregator and log_scan use.
ScanRow(url_id, at, country, city, device, os, browser) ==
    [url_id |-> url_id, scanned_at |-> at, country |-> country, city |-> city,
     device_type |-> device, os |-> os, browser |-> browser]

\* A variant of the query without the window.
RecentScansAllTime(rows, url_id, cutoff) ==
    LET Match(r) == r.url_id = url_id
    IN  Reverse(SelectSeq(rows, Match))

\* select(Scan).where(url_id = .., scanned_at >= cutoff).order_by(desc(scanned_at)):
\* rows are stored in the order of their timestamps, so the newest is last.
RecentScans(rows, url_id, cutoff) ==
    LET Match(r) == r.url_id = url_id /\ r.scanned_at >= cutoff
    IN  Reverse(SelectSeq(rows, Match))

\* The dict of scans per date string: analytics.py:169-172, 249-252.
DateCounts(loaded) ==
    LET keys == {strftime(date(loaded[i].scanned_at)) : i \in DOMAIN loaded}
    IN  [k \in keys |->
            Cardinality({i \in DOMAIN loaded : strftime(date(loaded[i].scanned_at)) = k})]

TimelineEntry(kind, date_str, n) ==
    IF kind = "get_analytics_summary"
      THEN [date |-> date_str, count |-> n]
      ELSE [date |-> date_str, scans |-> n]

EntryCount(kind, e) == IF kind = "get_analytics_summary" THEN e.count ELSE e.scans

\* The fill loop, from cutoff_date.date() while current_date <= today:
\* analytics.py:174-183, 254-265.
FillTimeline(kind, cutoff, today, counts) ==
    LET first == date(cutoff)
        n == IF today >= first THEN today - first + 1 ELSE 0
    IN  [i \in 1..n |->
            LET date_str == strftime(first + i - 1)
            IN  TimelineEntry(kind, date_str,
                              IF date_str \in DOMAIN counts THEN counts[date_str] ELSE 0)]

\* ---- top locations and countries: analytics.py:134-145 ----

TopLimit == 10

Truthy(text) == text # None /\ text # ""

\* f"{scan.city}, {scan.country}"
LocationKey(scan) == <<scan.city, ", ", scan.country>>

RECURSIVE LocationKeys(_), CountryKeys(_)
LocationKeys(loaded) ==
    IF loaded = <<>> THEN <<>>
    ELSE LET scan == Head(loaded)
         IN  (IF Truthy(scan.city) /\ Truthy(scan.country)
                THEN <<LocationKey(scan)>> ELSE <<>>) \o LocationKeys(Tail(loaded))

CountryKeys(loaded) ==
    IF loaded = <<>> THEN <<>>
    ELSE LET scan == Head(loaded)
         IN  (IF Truthy(scan.country) THEN <<scan.country>> ELSE <<>>)
                 \o CountryKeys(Tail(loaded))

\* d[key] = d.get(key, 0) + 1 on a dict, which keeps its keys in the order
\* of their first insertion.
DictIncrement(d, key) ==
    IF \E j \in DOMAIN d : d[j][1] = key
      THEN [j \in DOMAIN d |-> IF d[j][1] = key THEN <<key, d[j][2] + 1>> ELSE d[j]]
      ELSE Append(d, <<key, 1>>)

RECURSIVE Tally(_, _)
Tally(keys, d) ==
    IF keys = <<>> THEN d ELSE Tally(Tail(keys), DictIncrement(d, Head(keys)))

\* A variant that places an item before the items of equal count.
InsertBeforeEqual(out, item) ==
    LET p == Cardinality({j \in DOMAIN out : out[j][2] > item[2]})
    IN  SubSeq(out, 1, p) \o <<item>> \o SubSeq(out, p + 1, Len(out))

\* sorted(items, key=lambda x: x[1], reverse=True) is stable: an item goes
\* after every item already placed whose count is not smaller.
InsertByCountDesc(out, item) ==
    LET p == Cardinality({j \in DOMAIN out : out[j][2] >= item[2]})
    IN  SubSeq(out, 1, p) \o <<item>> \o SubSeq(out, p + 1, Len(out))

RECURSIVE SortedByCountDesc(_, _)
SortedByCountDesc(items, out) ==
    IF items = <<>> THEN out
    ELSE SortedByCountDesc(Tail(items), InsertByCountDesc(out, Head(items)))

FirstN(items, n) == SubSeq(items, 1, IF Len(items) < n THEN Len(items) ELSE n)

\* [{"location": k, "count": v} for k, v in ...]
LocationEntries(items) ==
    [i \in DOMAIN items |-> [location |-> items[i][1], count |-> items[i][2]]]

CountryEntries(items) ==
    [i \in DOMAIN items |-> [country |-> items[i][1], count |-> items[i][2]]]

top_locations(loaded) ==
    LocationEntries(
        FirstN(SortedByCountDesc(Tally(LocationKeys(loaded), <<>>), <<>>), TopLimit))

top_countries(loaded) ==
    CountryEntries(
        FirstN(SortedByCountDesc(Tally(CountryKeys(loaded), <<>>), <<>>), TopLimit))

-----------------------------------------------------------------------------
(* The timeline of one link, with the clock running.                       *)

\* 2024-03-01, so that the windows reach back over 29 February.
BaseDay == 19783

MaxStoredScans == 2
MaxClockSteps == 2

DaysSamples == {1, 2, 30, 365}

\* Times of day at which the model starts: noon and the last second.
StartOffsets == {SecondsPerDay \div 2, SecondsPerDay - 1}

\* Timestamps of the scans already stored, oldest first.
PastScanTimes ==
    <<timedelta(BaseDay - 40), timedelta(BaseDay - 1) - 1, timedelta(BaseDay) + 60>>

\* The clock moves by a second, or by a day between two calls.
ClockSteps == {1, SecondsPerDay}

AggKinds == {"get_analytics_summary", "get_scans_timeline"}

StoredScan(url_id, at) ==
    ScanRow(url_id, at, "Unknown", "Unknown", "desktop", "Unknown", "Unknown")

\* The scans tables the model starts from: up to MaxStoredScans rows of link
\* 1 or 2, in the order of their timestamps.
PastScanTables ==
    UNION {
        {t \in [1..n -> [url_id : {1, 2}, k : DOMAIN PastScanTimes]] :
            \A i \in 1..(n - 1) : t[i].k <= t[i + 1].k}
        : n \in 0..MaxStoredScans}

AggInit ==
    /\ \E o \in StartOffsets : now = timedelta(BaseDay) + o
    /\ ticks = 0
    /\ EvaluatorIdle
    /\ urls = <<>>
    /\ history = <<>>
    /\ reports = <<>>
    /\ \E t \in PastScanTables :
         scans = [i \in DOMAIN t |-> StoredScan(t[i].url_id, PastScanTimes[t[i].k])]
    /\ req = ReqIdle
    /\ agg = AggIdle
    /\ top = TopIdle
    /\ geo = GeoIdle

ClockAdvance ==
    /\ ticks < MaxClockSteps
    /\ \E d \in (IF agg.pc = "idle" THEN ClockSteps ELSE {1}) : now' = now + d
    /\ ticks' = ticks + 1
    /\ UNCHANGED <<valvars, dbvars, req, agg, top, geo>>

\* cutoff_date = datetime.utcnow() - timedelta(days=days): analytics.py:120, 240.
AggCall(kind, url_id, days) ==
    [AggIdle EXCEPT !.pc = "query", !.kind = kind, !.url_id = url_id,
                    !.days = days, !.cutoff = now - timedelta(days)]

AggStart ==
    /\ agg.pc = "idle"
    /\ \E kind \in AggKinds, days \in DaysSamples : agg' = AggCall(kind, 1, days)
    /\ UNCHANGED <<clockvars, valvars, dbvars, req, top, geo>>

\* await db.execute(...); scans = result.scalars().all(): analytics.py:123-129, 242-247.
AggQuery ==
    /\ agg.pc = "query"
    /\ agg' = [agg EXCEPT !.pc = "fill",
                          !.loaded = RecentScans(scans, agg.url_id, agg.cutoff)]
    /\ UNCHANGED <<clockvars, valvars, dbvars, req, top, geo>>

\* today = datetime.utcnow().date() and the grouping and fill loop that
\* follow it without awaiting: analytics.py:132, 168-183; 249-265.
AggFill ==
    /\ agg.pc = "fill"
    /\ agg' = [agg EXCEPT !.pc = "done",
                          !.timeline = FillTimeline(agg.kind, agg.cutoff, date(now),
                                                    DateCounts(agg.loaded))]
    /\ UNCHANGED <<clockvars, valvars, dbvars, req, top, geo>>

AggReturn ==
    /\ agg.pc = "done"
    /\ agg' = AggIdle
    /\ UNCHANGED <<clockvars, valvars, dbvars, req, top, geo>>

AggNext == ClockAdvance \/ AggStart \/ AggQuery \/ AggFill \/ AggReturn

SpecAnalytics == AggInit /\ [][AggNext]_vars

-----------------------------------------------------------------------------
(* The top-10 grouping, applied to lists of loaded scans.                  *)

MaxKeys == 11
MaxRepeats == 1

CountryNames ==
    <<"Argentina", "Brazil", "Canada", "Denmark", "Egypt", "France", "Germany",
      "Hungary", "India", "Japan", "Kenya", "Latvia", "Mexico", "Norway">>

CityNames ==
    <<"Buenos Aires", "Brasilia", "Ottawa", "Copenhagen", "Cairo", "Paris", "Berlin",
      "Budapest", "New Delhi", "Tokyo", "Nairobi", "Riga", "Mexico City", "Oslo">>

DistinctCountries(loaded) ==
    {loaded[i].country : i \in DOMAIN loaded} \ {None}

LoadedScan(country, city) ==
    ScanRow(1, 0, country, city, "desktop", "Unknown", "Unknown")

TopInit ==
    /\ now = timedelta(BaseDay)
    /\ ticks = 0
    /\ EvaluatorIdle
    /\ StorageEmpty
    /\ req = ReqIdle
    /\ agg = AggIdle
    /\ top = TopIdle
    /\ geo = GeoIdle

\* One more row in the list the query returned.  A country not seen before
\* is the next of CountryNames; rows that repeat a country or lack a field
\* are limited to MaxRepeats.
TopExtend ==
    /\ ~top.done
    /\ LET n == Cardinality(DistinctCountries(top.loaded))
           repeats == Len(top.loaded) - n
       IN  \E row \in
                {LoadedScan(CountryNames[n + 1], CityNames[n + 1]) :
                     x \in {y \in {1} : n < MaxKeys}}
                \cup {LoadedScan(CountryNames[j], CityNames[j]) :
                         j \in {y \in 1..n : repeats < MaxRepeats}}
                \cup {LoadedScan(CountryNames[j], None) :
                         j \in {y \in 1..n : repeats < MaxRepeats}}
                \cup {LoadedScan(None, CityNames[1]) :
                         x \in {y \in {1} : repeats < MaxRepeats}} :
              top' = [top EXCEPT !.loaded = Append(@, row)]
    /\ UNCHANGED <<clockvars, valvars, dbvars, req, agg, geo>>

\* analytics.py:134-145
TopCompute ==
    /\ ~top.done
    /\ top' = [top EXCEPT !.done = TRUE,
                          !.top_locations = top_locations(top.loaded),
                          !.top_countries = top_countries(top.loaded)]
    /\ UNCHANGED <<clockvars, valvars, dbvars, req, agg, geo>>

TopNext == TopExtend \/ TopCompute

SpecTop == TopInit /\ [][TopNext]_vars


-----------------------------------------------------------------------------
(* Geolocation: services/geolocation.py.                                   *)
(*                                                                         *)
(* An address is kept as its number (four octets, or eight 16-bit groups)  *)
(* and reaches the service as the text the socket layer prints for it.     *)

DecDigits == <<"0", "1", "2", "3", "4", "5", "6", "7", "8", "9">>
HexDigits == DecDigits \o <<"a", "b", "c", "d", "e", "f">>

RECURSIVE Dec(_), Hex(_)
Dec(n) == IF n < 10 THEN <<DecDigits[n + 1]>> ELSE Dec(n \div 10) \o <<DecDigits[(n % 10) + 1]>>
Hex(n) == IF n < 16 THEN <<HexDigits[n + 1]>> ELSE Hex(n \div 16) \o <<HexDigits[(n % 16) + 1]>>

RECURSIVE JoinHex(_, _, _)
JoinHex(g, from, to) ==
    IF from > to THEN <<>>
    ELSE IF from = to THEN Hex(g[from])
    ELSE Hex(g[from]) \o <<":">> \o JoinHex(g, from + 1, to)

RECURSIVE ZeroRun(_, _)
ZeroRun(g, i) == IF i > Len(g) \/ g[i] # 0 THEN 0 ELSE 1 + ZeroRun(g, i + 1)

\* Dotted decimal for IPv4; for IPv6 lower-case hex groups without leading
\* zeros, the first longest run of two or more zero groups written "::".
inet_ntop(ip) ==
    IF ip.v = 4
      THEN Dec(ip.o[1]) \o <<".">> \o Dec(ip.o[2]) \o <<".">> \o Dec(ip.o[3])
               \o <<".">> \o Dec(ip.o[4])
    ELSE IF ip.v = 6
      THEN LET g == ip.g
               runs == {i \in 1..8 : ZeroRun(g, i) >= 2}
           IN  IF runs = {} THEN JoinHex(g, 1, 8)
               ELSE LET at == CHOOSE i \in runs :
                                  \A j \in runs :
                                      \/ ZeroRun(g, j) < ZeroRun(g, i)
                                      \/ ZeroRun(g, j) = ZeroRun(g, i) /\ i <= j
                    IN  JoinHex(g, 1, at - 1) \o <<":", ":">>
                            \o JoinHex(g, at + ZeroRun(g, at), 8)
    ELSE ip.name

V4(a, b, c, d) == [v |-> 4, o |-> <<a, b, c, d>>]
V6(g) == [v |-> 6, g |-> g]
Name(text) == [v |-> 0, name |-> text]

T_localhost == <<"l", "o", "c", "a", "l", "h", "o", "s", "t">>
T_unknown == <<"u", "n", "k", "n", "o", "w", "n">>
T_loopback6 == <<":", ":", "1">>
T_any4 == <<"0", ".", "0", ".", "0", ".", "0">>

\* The ranges of RFC 1918, loopback, link-local fe80::/10 and unique local
\* fc00::/7, decided on the number.
InPrivateRange(ip) ==
    \/ /\ ip.v = 4
       /\ \/ ip.o[1] = 10
          \/ ip.o[1] = 172 /\ ip.o[2] \in 16..31
          \/ ip.o[1] = 192 /\ ip.o[2] = 168
          \/ ip.o[1] = 127
    \/ /\ ip.v = 6
       /\ \/ ip.g = <<0, 0, 0, 0, 0, 0, 0, 1>>
          \/ ip.g[1] \div 64 = 65152 \div 64
          \/ ip.g[1] \div 512 = 64512 \div 512

private_prefixes ==
    <<  <<"1", "0", ".">> >>
    \o [i \in 1..16 |-> <<"1", "7", "2", ".">> \o Dec(15 + i) \o <<".">>]
    \o << <<"1", "9", "2", ".", "1", "6", "8", ".">>,
          <<"1", "2", "7", ".">>,
          <<"0", ".">>,
          <<":", ":", "1">>,
          <<"f", "e", "8", "0", ":">>,
          <<"f", "c", "0", "0", ":">>,
          <<"f", "d", "0", "0", ":">> >>

\* geolocation.py:209-232; only the text is looked at.
_is_private_ip(ip, ip_address) ==
    \/ \E i \in DOMAIN private_prefixes : StartsWith(ip_address, private_prefixes[i])
    \/ ip_address \in {T_localhost, T_loopback6, T_any4}

LocalPlaceholder ==
    [country |-> "Local", country_code |-> "XX", city |-> "Local Network",
     is_local |-> TRUE]

UnknownLocation(source) ==
    [country |-> "Unknown", country_code |-> None, city |-> "Unknown", source |-> source]

\* What the GeoLite2 reader does with an address.
GeoLiteOutcomes == {"unconfigured", "raises", "found", "no_city", "no_country"}

\* geolocation.py:99-138
_lookup_geolite2(outcome) ==
    CASE outcome = "unconfigured" -> UnknownLocation("none")
      [] outcome = "raises" -> UnknownLocation("geolite2_error")
      [] outcome = "found" ->
            [country |-> "Japan", country_code |-> "JP", city |-> "Tokyo",
             source |-> "geolite2"]
      [] outcome = "no_city" ->
            [country |-> "Japan", country_code |-> "JP", city |-> "Unknown",
             source |-> "geolite2"]
      [] outcome = "no_country" ->
            [country |-> "Unknown", country_code |-> None, city |-> "Unknown",
             source |-> "geolite2"]

\* What ip-api.com answers.
IpApiOutcomes == {"success", "success_null_country", "status_fail", "http_error", "raises"}

\* geolocation.py:141-172, 175-206
_lookup_ip_api(outcome) ==
    CASE outcome = "success" ->
            [country |-> "Brazil", country_code |-> "BR", city |-> "Brasilia",
             source |-> "ip-api.com"]
      [] outcome = "success_null_country" ->
            [country |-> None, country_code |-> None, city |-> None,
             source |-> "ip-api.com"]
      [] OTHER -> UnknownLocation("api_error")

NeedsFallback(result) == result.country = "Unknown" \/ result.country = None

\* A variant that also turns down a remote answer without a country.
AfterFallbackNamed(result, api_result) ==
    IF api_result.country \notin {"Unknown", None} THEN api_result ELSE result

\* geolocation.py:63-68, 91-96
AfterFallback(result, api_result) ==
    IF api_result.country # "Unknown" THEN api_result ELSE result

\* get_location_from_ip as one function of the address and of what the two
\* lookups would answer: geolocation.py:71-96.
get_location_from_ip(ip, lite, api) ==
    IF _is_private_ip(ip, inet_ntop(ip)) THEN LocalPlaceholder
    ELSE IF NeedsFallback(_lookup_geolite2(lite))
      THEN AfterFallback(_lookup_geolite2(lite), _lookup_ip_api(api))
      ELSE _lookup_geolite2(lite)

IpSamples ==
    { V4(10, 0, 0, 1), V4(10, 255, 255, 255), V4(172, 16, 0, 1), V4(172, 31, 255, 254),
      V4(172, 15, 0, 1), V4(172, 32, 0, 1), V4(192, 168, 1, 1), V4(192, 169, 0, 1),
      V4(127, 0, 0, 1), V4(127, 255, 0, 1), V4(8, 8, 8, 8), V4(100, 64, 0, 1),
      V4(0, 0, 0, 0),
      V6(<<0, 0, 0, 0, 0, 0, 0, 1>>),
      V6(<<65152, 0, 0, 0, 0, 0, 0, 1>>),
      V6(<<65152, 0, 0, 0, 513, 0, 0, 43981>>),
      V6(<<65168, 0, 0, 0, 0, 0, 0, 1>>),
      V6(<<65215, 65535, 0, 0, 0, 0, 0, 1>>),
      V6(<<64512, 0, 0, 0, 0, 0, 0, 1>>),
      V6(<<64768, 0, 0, 0, 0, 0, 0, 1>>),
      V6(<<64786, 13398, 30874, 0, 0, 0, 0, 1>>),
      V6(<<8193, 3512, 0, 0, 0, 0, 0, 1>>),
      V6(<<65216, 0, 0, 0, 0, 0, 0, 1>>),
      Name(T_localhost), Name(T_unknown) }

GeoFns == {"get_location_from_ip", "get_location_from_ip_async"}

GeoInit ==
    /\ now = timedelta(BaseDay)
    /\ ticks = 0
    /\ EvaluatorIdle
    /\ StorageEmpty
    /\ req = ReqIdle
    /\ agg = AggIdle
    /\ top = TopIdle
    /\ geo = GeoIdle

\* geolocation.py:49-57, 77-85
GeoCall ==
    /\ geo.pc = "idle"
    /\ \E fn \in GeoFns, ip \in IpSamples :
         geo' = IF _is_private_ip(ip, inet_ntop(ip))
                  THEN [GeoIdle EXCEPT !.pc = "done", !.fn = fn, !.ip = ip,
                                       !.ip_address = inet_ntop(ip),
                                       !.result = LocalPlaceholder]
                  ELSE [GeoIdle EXCEPT !.pc = "geolite2", !.fn = fn, !.ip = ip,
                                       !.ip_address = inet_ntop(ip)]
    /\ UNCHANGED <<clockvars, valvars, dbvars, req, agg, top>>

\* geolocation.py:60-63, 88-91
GeoLookupLocal ==
    /\ geo.pc = "geolite2"
    /\ \E outcome \in GeoLiteOutcomes :
         geo' = [geo EXCEPT !.result = _lookup_geolite2(outcome),
                            !.lite = _lookup_geolite2(outcome),
                            !.calls = @ \cup {"geolite2"},
                            !.pc = IF NeedsFallback(_lookup_geolite2(outcome))
                                     THEN "ip_api" ELSE "done"]
    /\ UNCHANGED <<clockvars, valvars, dbvars, req, agg, top>>

\* geolocation.py:64-68, 92-96
GeoLookupRemote ==
    /\ geo.pc = "ip_api"
    /\ \E outcome \in IpApiOutcomes :
         geo' = [geo EXCEPT !.result = AfterFallback(@, _lookup_ip_api(outcome)),
                            !.api_result = _lookup_ip_api(outcome),
                            !.calls = @ \cup {"ip_api"},
                            !.pc = "done"]
    /\ UNCHANGED <<clockvars, valvars, dbvars, req, agg, top>>

GeoReturn ==
    /\ geo.pc = "done"
    /\ geo' = GeoIdle
    /\ UNCHANGED <<clockvars, valvars, dbvars, req, agg, top>>

GeoNext == GeoCall \/ GeoLookupLocal \/ GeoLookupRemote \/ GeoReturn

SpecGeo == GeoInit /\ [][GeoNext]_vars

\* C8: for every address in a private, loopback or link-local range (10/8,
\* 172.16/12, 192.168/16, 127/8, ::1, fe80::/10, fc00::/7) both functions
\* return the fixed placeholder and call neither the local geo-database nor
\* the remote lookup service.
C8_PrivateRangesShortCircuit ==
    (geo.pc # "idle" /\ InPrivateRange(geo.ip)) =>
        /\ geo.pc = "done"
        /\ geo.result = LocalPlaceholder
        /\ geo.calls = {}

-----------------------------------------------------------------------------
(* Storage and the request handlers: models.py, database.py, routes/qr.py, *)
(* routes/redirect.py, services/analytics.py (log_scan).                   *)
(*                                                                         *)
(* Each request runs in its own session.  A handler's statements up to an  *)
(* awaited database call form one step; a commit writes the session's      *)
(* pending rows and assigned columns in one transaction.  When the flush   *)
(* of a commit fails the transaction is rolled back: the pending rows are  *)
(* dropped and every instance of the session is expired, whatever          *)
(* expire_on_commit says (database.py:164-170 only sets it for commits).   *)
(* Reading an attribute of an expired instance needs a reload, which an    *)
(* AsyncSession cannot do outside an awaited call: it raises.              *)

MaxScans == 2
MaxHistory == 1
MaxReports == 1

\* The codes generate_short_code draws, in the order the model hands them
\* out: which random code a link gets makes no difference to any handler.
CodeOrder == <<"Ab3xY9", "Qr7LmN">>

ShortCodes == {CodeOrder[i] : i \in DOMAIN CodeOrder}

\* An optional value: absent, or one value.
Absent == <<>>
Some(v) == <<v>>

\* A row of the urls table: models.py:71-169.
UrlRow(url_id, user, code, url, preview, analytics, expiration) ==
    [url_id |-> url_id, user_id |-> user, short_code |-> code, original_url |-> url,
     show_preview |-> preview, analytics_enabled |-> analytics, is_active |-> TRUE,
     expiration_date |-> expiration, total_scans |-> 0, updated_at |-> now]

FindByCode(code) ==
    IF \E i \in DOMAIN urls : urls[i].short_code = code
      THEN CHOOSE i \in DOMAIN urls : urls[i].short_code = code
      ELSE 0

ScanRowsOf(url_id) == Cardinality({j \in DOMAIN scans : scans[j].url_id = url_id})

\* The columns of an instance that the flush writes: those assigned a value
\* other than the one loaded.  An assigned datetime.utcnow() has microseconds
\* and is never the value loaded.
NetChanges(loaded, obj, columns) ==
    {c \in columns : c = "updated_at" \/ obj[c] # loaded[c]}

\* A variant in which reactivating a link clears its expiration date.
ApplyDirtyRenewing(row, obj, dirty) ==
    [row EXCEPT
        !.updated_at = IF "updated_at" \in dirty THEN obj.updated_at
                       ELSE IF dirty # {} THEN now ELSE @,
        !.original_url = IF "original_url" \in dirty THEN obj.original_url ELSE @,
        !.show_preview = IF "show_preview" \in dirty THEN obj.show_preview ELSE @,
        !.analytics_enabled = IF "analytics_enabled" \in dirty THEN obj.analytics_enabled ELSE @,
        !.is_active = IF "is_active" \in dirty THEN obj.is_active ELSE @,
        !.expiration_date = IF "is_active" \in dirty /\ obj.is_active THEN <<>> ELSE @,
        !.total_scans = IF "total_scans" \in dirty THEN obj.total_scans ELSE @]

\* UPDATE urls SET <changed columns> for the session's URL instance; an
\* UPDATE that does not set updated_at gets it from onupdate
\* (models.py:144-148).
ApplyDirty(row, obj, dirty) ==
    [row EXCEPT
        !.updated_at = IF "updated_at" \in dirty THEN obj.updated_at
                       ELSE IF dirty # {} THEN now ELSE @,
        !.original_url = IF "original_url" \in dirty THEN obj.original_url ELSE @,
        !.show_preview = IF "show_preview" \in dirty THEN obj.show_preview ELSE @,
        !.analytics_enabled = IF "analytics_enabled" \in dirty THEN obj.analytics_enabled ELSE @,
        !.is_active = IF "is_active" \in dirty THEN obj.is_active ELSE @,
        !.total_scans = IF "total_scans" \in dirty THEN obj.total_scans ELSE @]

FlushedUrls(session) ==
    [i \in DOMAIN urls |->
        IF i = session.url.url_id THEN ApplyDirty(urls[i], session.url, session.dirty)
        ELSE urls[i]]
    \o [k \in DOMAIN session.new_urls |->
           [session.new_urls[k] EXCEPT !.url_id = Len(urls) + k, !.updated_at = now]]

\* A variant without the constraint.
NoUniqueConstraint(session) == FALSE

\* The unique constraint on urls.short_code: models.py:88-93.
FlushViolatesUnique(session) ==
    \E k \in DOMAIN session.new_urls : FindByCode(session.new_urls[k].short_code) # 0

\* A variant in which deactivating a link removes its scans.
CommitCascading(session) ==
    LET Kept(row) == row.url_id # session.url.url_id
    IN  /\ urls' = FlushedUrls(session)
        /\ scans' = IF "is_active" \in session.dirty /\ ~session.url.is_active
                      THEN SelectSeq(scans, Kept)
                      ELSE scans \o session.new_scans
        /\ history' = history \o session.new_history
        /\ reports' = reports \o session.new_reports

\* session.commit() that succeeds: everything pending is written at once.
Commit(session) ==
    /\ urls' = FlushedUrls(session)
    /\ scans' = scans \o session.new_scans
    /\ history' = history \o session.new_history
    /\ reports' = reports \o session.new_reports

\* The session after a successful commit: nothing pending, nothing expired
\* (expire_on_commit=False).
Committed(session) ==
    [session EXCEPT !.dirty = {}, !.new_urls = <<>>, !.new_scans = <<>>,
                    !.new_history = <<>>, !.new_reports = <<>>]

\* The session after a commit whose flush failed.
RolledBack(session) ==
    [SessionFresh EXCEPT !.url = session.url, !.expired = TRUE]

\* ---- log_scan's enrichment: analytics.py:38-72 ----

UaOutcomes == {"empty", "raises", "mobile", "tablet", "pc", "bot", "other"}

\* A variant in which a failed parse leaves the device type of the last
\* successful one.
ParseLeavingDevice(ua) ==
    IF ua \in {"empty", "raises"}
      THEN [device_type |-> "Mobile", os |-> "Unknown", browser |-> "Unknown"]
      ELSE [device_type |-> "Desktop", os |-> "Linux", browser |-> "Firefox 120.0"]

\* analytics.py:39-69
ParseUserAgent(ua) ==
    IF ua \in {"empty", "raises"}
      THEN [device_type |-> "Unknown", os |-> "Unknown", browser |-> "Unknown"]
      ELSE [device_type |-> CASE ua = "mobile" -> "Mobile"
                              [] ua = "tablet" -> "Tablet"
                              [] ua = "pc" -> "Desktop"
                              [] ua = "bot" -> "Bot"
                              [] OTHER -> "Unknown",
            os |-> "Linux", browser |-> "Firefox 120.0"]

Enrichment(ua, ip, lite, api) == [ua |-> ua, ip |-> ip, lite |-> lite, api |-> api]

\* The user agent is empty, fails to parse or parses; the address is public
\* or private; the local lookup is unconfigured, fails or succeeds; the
\* remote lookup fails or succeeds.
EnrichmentCases ==
    {Enrichment(ua, ip, lite, api) :
        ua \in {"empty", "raises", "mobile"},
        ip \in {V4(8, 8, 8, 8), V4(192, 168, 1, 1)},
        lite \in {"unconfigured", "raises", "found"},
        api \in {"success", "http_error", "raises"}}

PlainEnrichment == {Enrichment("pc", V4(8, 8, 8, 8), "found", "success")}

\* A variant that files the scan under the id after the link's.
NewScanElsewhere(url_id, at, e) ==
    ScanRow(url_id + 1, at, "Unknown", "Unknown", "Unknown", "Unknown", "Unknown")

\* Scan(...): analytics.py:75-89
NewScan(url_id, at, e) ==
    LET ua == ParseUserAgent(e.ua)
        location == get_location_from_ip(e.ip, e.lite, e.api)
    IN  ScanRow(url_id, at, location.country, location.city,
                ua.device_type, ua.os, ua.browser)

\* A variant that leaves the counter alone.
NoIncrement(obj) == obj

\* url.total_scans += 1 on the instance the session holds: analytics.py:96-97
IncrementTotalScans(obj) == [obj EXCEPT !.total_scans = @ + 1]

-----------------------------------------------------------------------------
(* The handlers, step by step.                                             *)

Free(s) == req[s].pc = "idle"

Begin(s, op, code, user) ==
    [RequestIdle EXCEPT !.op = op, !.short_code = code, !.user = user]

Fail(r, status) == [r EXCEPT !.pc = "teardown", !.response = [status |-> status]]

\* raise HTTPException(status_code, detail)
HTTPException(status, detail) == [status |-> status, detail |-> detail]

Raise(r, exception) == [r EXCEPT !.pc = "teardown", !.response = exception]

\* url_data.expiration_date and datetime.utcnow() > url_data.expiration_date
Expired(row, t) == row.expiration_date # Absent /\ t > row.expiration_date[1]

\* A variant that looks at the expiration date before the active flag.
GateExpiryFirst(i, t) ==
    IF i = 0 THEN HTTPException(404, "QR code not found")
    ELSE IF Expired(urls[i], t) THEN HTTPException(410, "This QR code has expired")
    ELSE IF ~urls[i].is_active
      THEN HTTPException(410, "This QR code has been deactivated")
    ELSE NoResponse

\* The checks of redirect.py:34-42 on the row the lookup found (0: none),
\* at time t: the exception raised, or NoResponse when the request passes.
RedirectGate(i, t) ==
    IF i = 0 THEN HTTPException(404, "QR code not found")
    ELSE IF ~urls[i].is_active
      THEN HTTPException(410, "This QR code has been deactivated")
    ELSE IF Expired(urls[i], t) THEN HTTPException(410, "This QR code has expired")
    ELSE NoResponse

\* A variant that logs the scan whatever the link's setting.
AlwaysLogScan(row) == "log_scan"

\* if url_data.analytics_enabled: redirect.py:45
AfterGate(row) == IF row.analytics_enabled THEN "log_scan" ELSE "respond"

\* GET /{short_code} up to the analytics block: redirect.py:31-45.
RedirectLookup(s) ==
    /\ Free(s)
    /\ \E code \in ShortCodes :
         LET i == FindByCode(code)
             r == [Begin(s, "redirect_url", code, None) EXCEPT
                      !.before = [scans |-> Len(scans),
                                  total_scans |-> IF i = 0 THEN 0 ELSE urls[i].total_scans]]
         IN  req' = [req EXCEPT ![s] =
                IF RedirectGate(i, now) # NoResponse THEN Raise(r, RedirectGate(i, now))
                ELSE [r EXCEPT !.session.url = urls[i], !.pc = AfterGate(urls[i])]]
    /\ UNCHANGED <<clockvars, valvars, dbvars, agg, top, geo>>

\* log_scan up to its query: analytics.py:38-95.
LogScanBuild(s, e) ==
    /\ req[s].pc = "log_scan"
    /\ Len(scans) < MaxScans
    /\ req' = [req EXCEPT ![s].enrichment = e,
                          ![s].before =
                              [scans |-> Len(scans),
                               total_scans |-> urls[req[s].session.url.url_id].total_scans],
                          ![s].session.new_scans =
                              Append(@, NewScan(req[s].session.url.url_id, now, e)),
                          ![s].pc = "log_scan_commit"]
    /\ UNCHANGED <<clockvars, valvars, dbvars, agg, top, geo>>

\* log_scan from the counter to the commit, and the except clause of the
\* handler when the commit raises: analytics.py:96-99, redirect.py:64-66.
LogScanCommit(s) ==
    /\ req[s].pc = "log_scan_commit"
    /\ LET session == [req[s].session EXCEPT !.url = IncrementTotalScans(@),
                                             !.dirty = @ \cup {"total_scans"}]
       IN  \/ /\ Commit(session)
              /\ req' = [req EXCEPT ![s].session = Committed(session),
                                    ![s].pc = "respond"]
           \/ /\ req' = [req EXCEPT ![s].session = RolledBack(session),
                                    ![s].scan_error = TRUE,
                                    ![s].pc = "respond"]
              /\ UNCHANGED dbvars
    /\ UNCHANGED <<clockvars, valvars, agg, top, geo>>

PreviewLocation(code) == <<"/preview/", code>>

\* redirect.py:68-72
RedirectRespond(s) ==
    /\ req[s].pc = "respond"
    /\ req' = [req EXCEPT ![s] =
            IF req[s].session.expired THEN Fail(@, 500)
            ELSE [@ EXCEPT !.pc = "teardown",
                           !.response =
                               [status |-> 302,
                                location |-> IF req[s].session.url.show_preview
                                               THEN PreviewLocation(req[s].short_code)
                                               ELSE req[s].session.url.original_url]]]
    /\ UNCHANGED <<clockvars, valvars, dbvars, agg, top, geo>>

\* HTMLResponse(content=html_content)
HTMLResponse(content) == [status |-> 200, content |-> content]

\* get_security_info for the page (security.py:373-389).  The handlers run
\* without a Safe Browsing key, where check_safe_browsing answers at
\* security.py:126-131 and leaves the cache alone.
get_security_info(url, ssl) ==
    [has_ssl |-> check_ssl_certificate(url, ssl).has_ssl,
     is_safe |-> UnconfiguredResult.is_safe,
     threats |-> UnconfiguredResult.threats]

\* GET /preview/{short_code}: redirect.py:75-384.  The page shows the
\* destination and its script sets window.location.href to it after five
\* seconds (redirect.py:366-379).
PreviewPage(s) ==
    /\ Free(s)
    /\ ~sb_configured
    /\ \E code \in ShortCodes, ssl \in SslOutcomes :
         LET i == FindByCode(code)
             r == Begin(s, "preview_page", code, None)
         IN  req' = [req EXCEPT ![s] =
                IF i = 0 THEN Raise(r, HTTPException(404, "QR code not found"))
                ELSE [r EXCEPT !.session.url = urls[i],
                               !.pc = "teardown",
                               !.response =
                                   HTMLResponse(
                                       [destinationUrl |-> urls[i].original_url,
                                        security |-> get_security_info(urls[i].original_url,
                                                                       ssl)])]]
    /\ UNCHANGED <<clockvars, valvars, dbvars, agg, top, geo>>

\* get_db after the handler: commit when it returned, roll back when it
\* raised, close: database.py:216-223.  The response is on its way and the
\* request is over.
Teardown(s) ==
    /\ req[s].pc = "teardown"
    /\ IF req[s].response.status \in {200, 302} /\ ~FlushViolatesUnique(req[s].session)
         THEN Commit(req[s].session)
         ELSE UNCHANGED dbvars
    /\ req' = [req EXCEPT ![s] = RequestIdle]
    /\ UNCHANGED <<clockvars, valvars, agg, top, geo>>

\* ---- POST /api/qr/create: qr.py:96-166 ----

CreateBodies ==
    { [url |-> U_http, show_preview |-> TRUE, analytics_enabled |-> TRUE,
       expiration_days |-> Absent],
      [url |-> U_https, show_preview |-> FALSE, analytics_enabled |-> TRUE,
       expiration_days |-> Some(1)],
      [url |-> U_pat, show_preview |-> TRUE, analytics_enabled |-> TRUE,
       expiration_days |-> Absent] }

Users == {"u1", "u2"}

\* What validate_url answers without the reachability check, given the
\* threat-list result: security.py:319-370.  Certificate and domain-age
\* findings only add warnings, which the handlers do not read.
ValidationVerdict(url, sb) ==
    IF FormatStage(url).next = "done" THEN FormatStage(url).res
    ELSE ApplySafeBrowsing(FormatStage(url).res, sb)

ThreatListAnswers ==
    {SbResult(TRUE, <<>>, "none"), SbResult(FALSE, <<"MALWARE">>, "none")}

\* qr.py:83-92: a code no row has at the time of the check.
generate_unique_short_code ==
    CodeOrder[CHOOSE i \in DOMAIN CodeOrder :
                  /\ FindByCode(CodeOrder[i]) = 0
                  /\ \A j \in 1..(i - 1) : FindByCode(CodeOrder[j]) # 0]

\* qr.py:105-139
CreateQr(s) ==
    /\ Free(s)
    /\ Len(urls) < Cardinality(ShortCodes)
    /\ \E body \in CreateBodies, user \in {"u1"}, sb \in ThreatListAnswers :
         /\ LET code == generate_unique_short_code
                r == Begin(s, "create_qr", code, user)
                expiration == IF body.expiration_days = Absent THEN Absent
                              ELSE Some(now + timedelta(body.expiration_days[1]))
            IN  req' = [req EXCEPT ![s] =
                   IF ~ValidationVerdict(body.url, sb).is_safe THEN Fail(r, 400)
                   ELSE [r EXCEPT !.session.new_urls =
                                      <<UrlRow(0, user, code, body.url, body.show_preview,
                                               body.analytics_enabled, expiration)>>,
                                  !.pc = "create_commit"]]
    /\ UNCHANGED <<clockvars, valvars, dbvars, agg, top, geo>>

\* qr.py:140-166: the commit, then the image file.  generate_qr_code raises
\* when hex_to_rgb meets a colour that is not six hex digits
\* (qr_generator.py:22-25, 61-62) or when the file cannot be written.
CreateCommit(s) ==
    /\ req[s].pc = "create_commit"
    /\ \/ /\ ~FlushViolatesUnique(req[s].session)
          /\ Commit(req[s].session)
          /\ \E qr_written \in BOOLEAN :
               req' = [req EXCEPT ![s].session = Committed(@),
                                  ![s].pc = "teardown",
                                  ![s].response =
                                      [status |-> IF qr_written THEN 200 ELSE 500]]
       \/ /\ req' = [req EXCEPT ![s] = Fail([@ EXCEPT !.session = RolledBack(@)], 500)]
          /\ UNCHANGED dbvars
    /\ UNCHANGED <<clockvars, valvars, agg, top, geo>>

\* ---- PUT /api/qr/{short_code}: qr.py:242-315 ----

UpdateBodies ==
    { [url |-> Some(U_https), show_preview |-> Absent, analytics_enabled |-> Absent,
       is_active |-> Absent],
      [url |-> Some(U_pat), show_preview |-> Some(FALSE), analytics_enabled |-> Absent,
       is_active |-> Absent],
      [url |-> Absent, show_preview |-> Absent, analytics_enabled |-> Some(FALSE),
       is_active |-> Absent],
      [url |-> Absent, show_preview |-> Absent, analytics_enabled |-> Some(TRUE),
       is_active |-> Some(TRUE)] }

\* A variant of the lookup without the user_id filter.
FindAnyOwner(code, user) == FindByCode(code)

\* select(URL).filter(URL.short_code == short_code, URL.user_id == user.user_id)
FindOwned(code, user) ==
    IF FindByCode(code) # 0 /\ urls[FindByCode(code)].user_id = user
      THEN FindByCode(code) ELSE 0

\* URLHistory(...): qr.py:273-278
HistoryRow(url_id, old, new, user) ==
    [url_id |-> url_id, old_url |-> old, new_url |-> new, changed_by |-> user]

\* The assignments of qr.py:269-296 on the loaded instance.
Assigned(obj, body) ==
    [obj EXCEPT
        !.original_url = IF body.url # Absent THEN body.url[1] ELSE @,
        !.show_preview = IF body.show_preview # Absent THEN body.show_preview[1] ELSE @,
        !.analytics_enabled =
            IF body.analytics_enabled # Absent THEN body.analytics_enabled[1] ELSE @,
        !.is_active = IF body.is_active # Absent THEN body.is_active[1] ELSE @,
        !.updated_at = now]

AssignedColumns(body) ==
    {c \in {"original_url", "show_preview", "analytics_enabled", "is_active",
            "updated_at"} :
        \/ c = "updated_at"
        \/ c = "original_url" /\ body.url # Absent
        \/ c = "show_preview" /\ body.show_preview # Absent
        \/ c = "analytics_enabled" /\ body.analytics_enabled # Absent
        \/ c = "is_active" /\ body.is_active # Absent}

\* A variant that drops a url failing validation and goes on with the
\* other fields of the body.
UpdateSkippingBadUrl(s, bodies, room) ==
    /\ Free(s)
    /\ \E code \in ShortCodes, user \in Users, body \in bodies,
          sb \in ThreatListAnswers :
         LET i == FindOwned(code, user)
             r == [Begin(s, "update_qr_code", code, user) EXCEPT !.body = body]
             kept == IF body.url # Absent /\ ~ValidationVerdict(body.url[1], sb).is_safe
                       THEN [body EXCEPT !.url = Absent] ELSE body
         IN  /\ kept.url # Absent /\ i # 0 => Len(history) < room
             /\ req' = [req EXCEPT ![s] =
                  IF i = 0 THEN Fail(r, 404)
                  ELSE [r EXCEPT
                          !.session.url = Assigned(urls[i], kept),
                          !.session.dirty =
                              NetChanges(urls[i], Assigned(urls[i], kept),
                                         AssignedColumns(kept)),
                          !.session.new_history =
                              IF kept.url # Absent
                                THEN <<HistoryRow(i, urls[i].original_url, kept.url[1], user)>>
                                ELSE <<>>,
                          !.pc = "update_commit"]]
    /\ UNCHANGED <<clockvars, valvars, dbvars, agg, top, geo>>

\* qr.py:252-296, for request bodies drawn from `bodies` and while the
\* history table holds fewer than `room` rows.
Update(s, bodies, room) ==
    /\ Free(s)
    /\ \E code \in ShortCodes, user \in Users, body \in bodies,
          sb \in ThreatListAnswers :
         LET i == FindOwned(code, user)
             r == [Begin(s, "update_qr_code", code, user) EXCEPT !.body = body]
         IN  /\ body.url # Absent /\ i # 0 => Len(history) < room
             /\ req' = [req EXCEPT ![s] =
                  IF i = 0 THEN Fail(r, 404)
                  ELSE IF body.url # Absent /\ ~ValidationVerdict(body.url[1], sb).is_safe
                    THEN Fail(r, 400)
                  ELSE [r EXCEPT
                          !.session.url = Assigned(urls[i], body),
                          !.session.dirty =
                              NetChanges(urls[i], Assigned(urls[i], body),
                                         AssignedColumns(body)),
                          !.session.new_history =
                              IF body.url # Absent
                                THEN <<HistoryRow(i, urls[i].original_url, body.url[1], user)>>
                                ELSE <<>>,
                          !.pc = "update_commit"]]
    /\ UNCHANGED <<clockvars, valvars, dbvars, agg, top, geo>>

UpdateQrCode(s) == Update(s, UpdateBodies, MaxHistory)

\* A handler's own commit, with nothing to catch its failure:
\* qr.py:298-315, 339-341; redirect.py:509-546.
HandlerCommit(s, pc) ==
    /\ req[s].pc = pc
    /\ \/ /\ Commit(req[s].session)
          /\ req' = [req EXCEPT ![s].session = Committed(@),
                                ![s].pc = "teardown",
                                ![s].response = [status |-> 200]]
       \/ /\ req' = [req EXCEPT ![s] = Fail([@ EXCEPT !.session = RolledBack(@)], 500)]
          /\ UNCHANGED dbvars
    /\ UNCHANGED <<clockvars, valvars, agg, top, geo>>

UpdateCommit(s) == HandlerCommit(s, "update_commit")

\* ---- DELETE /api/qr/{short_code}: qr.py:318-341 ----

\* A variant that also clears the counter.
DeactivatedAndReset(session, row, t) ==
    LET obj == [row EXCEPT !.is_active = FALSE, !.updated_at = t, !.total_scans = 0]
    IN  [session EXCEPT
            !.url = obj,
            !.dirty = NetChanges(row, obj, {"is_active", "updated_at", "total_scans"})]

\* url.is_active = False; url.updated_at = datetime.utcnow(): qr.py:336-337
Deactivated(session, row, t) ==
    LET obj == [row EXCEPT !.is_active = FALSE, !.updated_at = t]
    IN  [session EXCEPT !.url = obj,
                        !.dirty = NetChanges(row, obj, {"is_active", "updated_at"})]

\* qr.py:327-337
DeleteQrCode(s) ==
    /\ Free(s)
    /\ \E code \in ShortCodes, user \in Users :
         LET i == FindOwned(code, user)
             r == Begin(s, "delete_qr_code", code, user)
         IN  req' = [req EXCEPT ![s] =
                IF i = 0 THEN Fail(r, 404)
                ELSE [r EXCEPT !.session = Deactivated(@, urls[i], now),
                               !.pc = "delete_commit"]]
    /\ UNCHANGED <<clockvars, valvars, dbvars, agg, top, geo>>

DeleteCommit(s) == HandlerCommit(s, "delete_commit")

\* ---- GET /api/qr/{short_code}/history: qr.py:377-413 ----

\* qr.py:386-392
GetUrlHistory(s) ==
    /\ Free(s)
    /\ \E code \in ShortCodes, user \in Users :
         LET i == FindOwned(code, user)
             r == Begin(s, "get_url_history", code, user)
         IN  req' = [req EXCEPT ![s] =
                IF i = 0 THEN Raise(r, HTTPException(404, "QR code not found"))
                ELSE [r EXCEPT !.session.url = urls[i], !.pc = "history_query"]]
    /\ UNCHANGED <<clockvars, valvars, dbvars, agg, top, geo>>

\* qr.py:394-413: the rows of the link, newest first.
HistoryQuery(s) ==
    /\ req[s].pc = "history_query"
    /\ LET url == req[s].session.url
           rows == SelectSeq(history, LAMBDA h : h.url_id = url.url_id)
       IN  req' = [req EXCEPT
                     ![s].pc = "teardown",
                     ![s].response =
                         [status |-> 200, short_code |-> req[s].short_code,
                          current_url |-> url.original_url,
                          history |-> [k \in DOMAIN rows |->
                                          [old_url |-> Reverse(rows)[k].old_url,
                                           new_url |-> Reverse(rows)[k].new_url]]]]
    /\ UNCHANGED <<clockvars, valvars, dbvars, agg, top, geo>>

\* require_auth without a valid token: routes/auth.py:121-131.  The handler
\* is not entered.
OwnerRoutes == {"update_qr_code", "delete_qr_code", "get_url_history"}

RequireAuthFails(s) ==
    /\ Free(s)
    /\ \E route \in OwnerRoutes, code \in ShortCodes :
         req' = [req EXCEPT ![s] =
                   Raise(Begin(s, route, code, None),
                         HTTPException(401, "Not authenticated"))]
    /\ UNCHANGED <<clockvars, valvars, dbvars, agg, top, geo>>

\* ---- POST /api/report/{short_code}: redirect.py:486-546 ----

ReportRow(url_id) == [url_id |-> url_id, status |-> "pending"]

SubmitReport(s) ==
    /\ Free(s)
    /\ \E code \in ShortCodes :
         LET i == FindByCode(code)
             r == Begin(s, "submit_report", code, None)
         IN  /\ i # 0 => Len(reports) < MaxReports
             /\ req' = [req EXCEPT ![s] =
                  IF i = 0 THEN Fail(r, 404)
                  ELSE [r EXCEPT !.session.url = urls[i],
                                 !.session.new_reports = <<ReportRow(i)>>,
                                 !.pc = "report_commit"]]
    /\ UNCHANGED <<clockvars, valvars, dbvars, agg, top, geo>>

ReportCommit(s) == HandlerCommit(s, "report_commit")

\* ---- GET /api/analytics/{short_code}[/timeline|/summary]: ----
\* ---- routes/analytics.py:101-192                           ----

AnalyticsRoutes == {"get_analytics", "get_timeline", "get_quick_summary"}

\* Values of the days query parameter: around both ends of the range, and
\* the default.
DaysOffered == {-1, 0, 1, 30, 365, 366}

\* A variant that only rejects what is above the range.
DaysAboveRange(days) == days > 365

\* if days < 1 or days > 365: routes/analytics.py:112, 145
DaysOutOfRange(days) == days < 1 \/ days > 365

\* The aggregator a route calls, and the window it passes:
\* routes/analytics.py:125, 156, 183.
RouteAggregator(route) ==
    IF route = "get_timeline" THEN "get_scans_timeline" ELSE "get_analytics_summary"

RouteWindow(route, days) == IF route = "get_quick_summary" THEN 7 ELSE days

\* A route up to its call of the aggregator.  require_auth answers 401
\* before the handler runs (routes/auth.py:121-131); get_quick_summary has
\* no days parameter.
AnalyticsRoute(s) ==
    /\ Free(s)
    /\ agg.pc = "idle"
    /\ \E route \in AnalyticsRoutes, code \in ShortCodes, user \in Users \cup {None},
          days \in DaysOffered :
         LET i == FindOwned(code, user)
             r == [Begin(s, route, code, user) EXCEPT !.days = days]
         IN  /\ route = "get_quick_summary" => days = 30
             /\ IF user = None
                   THEN /\ req' = [req EXCEPT ![s] =
                                     Raise(r, HTTPException(401, "Not authenticated"))]
                        /\ UNCHANGED agg
                 ELSE IF route # "get_quick_summary" /\ DaysOutOfRange(days)
                   THEN /\ req' = [req EXCEPT ![s] =
                             Raise(r, HTTPException(400, "Days must be between 1 and 365"))]
                        /\ UNCHANGED agg
                 ELSE IF i = 0
                   THEN /\ req' = [req EXCEPT ![s] =
                                     Raise(r, HTTPException(404, "QR code not found"))]
                        /\ UNCHANGED agg
                 ELSE /\ req' = [req EXCEPT ![s] =
                                   [r EXCEPT !.session.url = urls[i], !.pc = "aggregate"]]
                      /\ agg' = AggCall(RouteAggregator(route), i,
                                        RouteWindow(route, days))
    /\ UNCHANGED <<clockvars, valvars, dbvars, top, geo>>

\* The route's return once the aggregator has returned:
\* routes/analytics.py:127-132, 158-162, 185-192.
AnalyticsRespond(s) ==
    /\ req[s].pc = "aggregate"
    /\ agg.pc = "done"
    /\ req' = [req EXCEPT ![s].pc = "teardown", ![s].response = [status |-> 200]]
    /\ agg' = AggIdle
    /\ UNCHANGED <<clockvars, valvars, dbvars, top, geo>>

AnalyticsStep(s) ==
    \/ AnalyticsRoute(s)
    \/ AggQuery
    \/ AggFill
    \/ AnalyticsRespond(s)

\* ---- the specifications ----

Noon == timedelta(BaseDay) + (SecondsPerDay \div 2)

DbInit ==
    /\ now = Noon
    /\ ticks = 0
    /\ EvaluatorIdle
    /\ StorageEmpty
    /\ req = ReqIdle
    /\ agg = AggIdle
    /\ top = TopIdle
    /\ geo = GeoIdle

\* One link, as create_qr leaves it.
FirstLink == UrlRow(1, "u1", "Ab3xY9", U_http, TRUE, TRUE, Absent)

LinkInit ==
    /\ now = Noon
    /\ ticks = 0
    /\ EvaluatorIdle
    /\ \E preview \in BOOLEAN : urls = <<[FirstLink EXCEPT !.show_preview = preview]>>
    /\ scans = <<>>
    /\ history = <<>>
    /\ reports = <<>>
    /\ req = ReqIdle
    /\ agg = AggIdle
    /\ top = TopIdle
    /\ geo = GeoIdle

RedirectStep(s, cases) ==
    \/ RedirectLookup(s)
    \/ \E e \in cases : LogScanBuild(s, e)
    \/ LogScanCommit(s)
    \/ RedirectRespond(s)
    \/ Teardown(s)

ManageStep(s) ==
    \/ CreateQr(s)
    \/ CreateCommit(s)
    \/ UpdateQrCode(s)
    \/ UpdateCommit(s)
    \/ DeleteQrCode(s)
    \/ DeleteCommit(s)
    \/ SubmitReport(s)
    \/ ReportCommit(s)

\* Operations one after the other: a single request at a time.
SeqNext == RedirectStep("s1", PlainEnrichment) \/ ManageStep("s1")

SpecSeq == DbInit /\ [][SeqNext]_vars

\* Every operation on the link of LinkInit, one at a time.
LinkStep(s) ==
    \/ UpdateQrCode(s)
    \/ UpdateCommit(s)
    \/ DeleteQrCode(s)
    \/ DeleteCommit(s)
    \/ SubmitReport(s)
    \/ ReportCommit(s)

LinkNext ==
    \/ RedirectStep("s1", PlainEnrichment)
    \/ LinkStep("s1")
    \/ AnalyticsStep("s1")

SpecLink == LinkInit /\ [][LinkNext]_vars

\* A link that create_qr made at noon with expiration_days = 1, scanned,
\* deactivated and reactivated while the clock runs past its expiration.
ExpiringLink ==
    UrlRow(1, "u1", "Ab3xY9", U_https, FALSE, TRUE, Some(Noon + timedelta(1)))

GateInit ==
    /\ now = Noon
    /\ ticks = 0
    /\ EvaluatorIdle
    /\ urls = <<ExpiringLink>>
    /\ scans = <<>>
    /\ history = <<>>
    /\ reports = <<>>
    /\ req = ReqIdle
    /\ agg = AggIdle
    /\ top = TopIdle
    /\ geo = GeoIdle

GateNext ==
    \/ ClockAdvance
    \/ RedirectStep("s1", PlainEnrichment)
    \/ PreviewPage("s1")
    \/ UpdateQrCode("s1")
    \/ UpdateCommit("s1")
    \/ DeleteQrCode("s1")
    \/ DeleteCommit("s1")

SpecGate == GateInit /\ [][GateNext]_vars

\* A link of u1 and a link that create_qr made for a caller without a token
\* (user_id = None, qr.py:126), with requests of u1, of u2 and of callers
\* without a token.
AnonymousLink == UrlRow(2, None, "Qr7LmN", U_http, FALSE, TRUE, Absent)

OwnerInit ==
    /\ now = Noon
    /\ ticks = 0
    /\ EvaluatorIdle
    /\ urls = <<FirstLink, AnonymousLink>>
    /\ scans = <<>>
    /\ history = <<>>
    /\ reports = <<>>
    /\ req = ReqIdle
    /\ agg = AggIdle
    /\ top = TopIdle
    /\ geo = GeoIdle

OwnerNext ==
    \/ UpdateQrCode("s1")
    \/ UpdateCommit("s1")
    \/ DeleteQrCode("s1")
    \/ DeleteCommit("s1")
    \/ GetUrlHistory("s1")
    \/ HistoryQuery("s1")
    \/ RequireAuthFails("s1")
    \/ AnalyticsStep("s1")
    \/ Teardown("s1")

SpecOwner == OwnerInit /\ [][OwnerNext]_vars

\* Destination changes of one link, by requests side by side.
MaxChain == 2

ChainBodies ==
    { [url |-> Some(U_http), show_preview |-> Absent, analytics_enabled |-> Absent,
       is_active |-> Absent],
      [url |-> Some(U_https), show_preview |-> Absent, analytics_enabled |-> Absent,
       is_active |-> Absent],
      [url |-> Some(U_pat2), show_preview |-> Absent, analytics_enabled |-> Absent,
       is_active |-> Absent],
      [url |-> Absent, show_preview |-> Some(FALSE), analytics_enabled |-> Absent,
       is_active |-> Some(FALSE)] }

HistoryNext ==
    \E s \in Sessions :
        \/ Update(s, ChainBodies, MaxChain)
        \/ UpdateCommit(s)
        \/ Teardown(s)

SpecHistory == LinkInit /\ [][HistoryNext]_vars

\* create_qr requests side by side.
CreateNext == \E s \in Sessions : CreateQr(s) \/ CreateCommit(s) \/ Teardown(s)

SpecCreate == DbInit /\ [][CreateNext]_vars

\* Requests side by side on the link of LinkInit.
Next == \E s \in Sessions : RedirectStep(s, PlainEnrichment)

Spec == LinkInit /\ [][Next]_vars

\* Scans of one link under every outcome of the enrichment steps.
LogScanNext == RedirectStep("s1", EnrichmentCases)

SpecLogScan == LinkInit /\ [][LogScanNext]_vars

-----------------------------------------------------------------------------
(* Properties of the analytics aggregator.                                 *)

\* C6: the timeline a call returns has exactly days + 1 entries, one for
\* each consecutive calendar date from the date of (now - days) on, in
\* ascending order, and an entry's count is 0 when no scan of the link was
\* stored on its date.
C6_TimelineHasDaysPlusOneEntries ==
    agg.pc = "done" =>
        /\ Len(agg.timeline) = agg.days + 1
        /\ \A i \in DOMAIN agg.timeline :
             /\ agg.timeline[i].date = strftime(date(agg.cutoff) + i - 1)
             /\ (\A j \in DOMAIN scans :
                    scans[j].url_id = agg.url_id =>
                        strftime(date(scans[j].scanned_at)) # agg.timeline[i].date)
                    => EntryCount(agg.kind, agg.timeline[i]) = 0

KeyCount(keys, k) == Cardinality({i \in DOMAIN keys : keys[i] = k})

FirstSeen(keys, k) == CHOOSE i \in DOMAIN keys : keys[i] = k /\ \A j \in 1..(i - 1) : keys[j] # k

\* result is the list of the TopLimit best keys of `keys` with their counts,
\* where k1 ranks before k2 when it has a higher count, or the same count
\* and was met earlier.  Ranking is a strict total order, so it is stated
\* for neighbours, and for the last entry against every key left out.
RankedTop(result, all, shown, count, first) ==
    LET RanksBefore(k1, k2) ==
            \/ count[k1] > count[k2]
            \/ count[k1] = count[k2] /\ first[k1] < first[k2]
    IN  /\ Len(result) = (IF Cardinality(all) < TopLimit THEN Cardinality(all) ELSE TopLimit)
        /\ shown \subseteq all
        /\ \A i \in DOMAIN result : result[i][2] = count[result[i][1]]
        /\ \A i \in 1..(Len(result) - 1) :
             /\ result[i][2] >= result[i + 1][2]
             /\ RanksBefore(result[i][1], result[i + 1][1])
        /\ \A k \in all \ shown : RanksBefore(result[Len(result)][1], k)

AllKeys(keys) == {keys[i] : i \in DOMAIN keys}

IsTopOf(result, keys) ==
    RankedTop(result, AllKeys(keys), {result[i][1] : i \in DOMAIN result},
              [k \in AllKeys(keys) |-> KeyCount(keys, k)],
              [k \in AllKeys(keys) |-> FirstSeen(keys, k)])

\* C7: top_locations and top_countries each hold at most 10 entries, in
\* non-increasing order of count; they are the 10 keys of highest count, and
\* keys of equal count keep the order in which the scans first showed them,
\* inside the list and at the cut after the tenth.
C7_TopTenSortedStable ==
    top.done =>
        /\ Len(top.top_locations) <= TopLimit
        /\ Len(top.top_countries) <= TopLimit
        /\ IsTopOf([i \in DOMAIN top.top_locations |->
                       <<top.top_locations[i].location, top.top_locations[i].count>>],
                   LocationKeys(top.loaded))
        /\ IsTopOf([i \in DOMAIN top.top_countries |->
                       <<top.top_countries[i].country, top.top_countries[i].count>>],
                   CountryKeys(top.loaded))

\* Eleven countries, the last one met scanned twice: it leads both lists,
\* and of the ten countries scanned once the last one met is cut.
C7_Witness ==
    /\ top.done
    /\ Cardinality(DistinctCountries(top.loaded)) = TopLimit + 1
    /\ Len(top.top_countries) = TopLimit
    /\ top.top_countries[1] = [country |-> CountryNames[TopLimit + 1], count |-> 2]
    /\ top.top_countries[TopLimit] = [country |-> CountryNames[TopLimit - 1], count |-> 1]
    /\ Len(top.top_locations) = TopLimit
    /\ top.top_locations[1].count = 2


-----------------------------------------------------------------------------
(* Properties of the scan counter and of the redirect handler.             *)

Quiescent == \A s \in Sessions : req[s].pc = "idle"

\* C1: whenever the operations so far (create_qr, redirect_url with
\* log_scan, update_qr_code, delete_qr_code, report submission) ran one
\* after the other and have completed, every link's total_scans equals the
\* number of scans rows that reference the link.
C1_CounterEqualsScanRows ==
    Quiescent => \A i \in DOMAIN urls : urls[i].total_scans = ScanRowsOf(urls[i].url_id)

\* Two links scanned once each, one destination changed, one report filed
\* and one link deactivated.
C1_Witness ==
    /\ Quiescent
    /\ Len(urls) = 2
    /\ \A i \in DOMAIN urls : urls[i].total_scans = 1 /\ ScanRowsOf(i) = 1
    /\ Len(history) = 1
    /\ Len(reports) = 1
    /\ \E i \in DOMAIN urls : ~urls[i].is_active

\* The log_scan call of request s has committed.
Logged(s) ==
    /\ req[s].op = "redirect_url"
    /\ req[s].pc = "respond"
    /\ req[s].enrichment.ua # "none"
    /\ ~req[s].scan_error

\* C2: when two log_scan calls for the same link run side by side in
\* separate sessions, each of them started before the other committed, then
\* once both have committed the counter has grown by two and equals the
\* number of the link's scans rows.
C2_NoLostIncrement ==
    \A s, t \in Sessions :
        (/\ s # t
         /\ Logged(s) /\ Logged(t)
         /\ req[s].session.url.url_id = req[t].session.url.url_id
         /\ req[s].before.scans = req[t].before.scans)
        => LET i == req[s].session.url.url_id
           IN  /\ urls[i].total_scans = req[s].before.total_scans + 2
               /\ urls[i].total_scans = ScanRowsOf(i)

GeoFailed(e) ==
    /\ ~_is_private_ip(e.ip, inet_ntop(e.ip))
    /\ e.lite \in {"unconfigured", "raises"}
    /\ e.api \in {"http_error", "raises"}

\* C9: whatever the enrichment steps meet (the user agent parses, fails or
\* is empty; the local lookup succeeds, fails or is unconfigured; the remote
\* lookup succeeds or fails), log_scan gets as far as its commit with one
\* pending Scan row, and once the commit is through there is exactly one
\* more scans row and the link's counter is one higher; the fields of a
\* failed step hold 'Unknown'.
C9_EnrichmentNeverAborts ==
    \A s \in Sessions :
        /\ req[s].pc = "log_scan_commit" => Len(req[s].session.new_scans) = 1
        /\ Logged(s) =>
             LET i == req[s].session.url.url_id
                 row == scans[Len(scans)]
                 e == req[s].enrichment
             IN  /\ Len(scans) = req[s].before.scans + 1
                 /\ row.url_id = i
                 /\ urls[i].total_scans = req[s].before.total_scans + 1
                 /\ e.ua \in {"empty", "raises"} =>
                        /\ row.device_type = "Unknown"
                        /\ row.os = "Unknown"
                        /\ row.browser = "Unknown"
                 /\ GeoFailed(e) => row.country = "Unknown" /\ row.city = "Unknown"

\* A second scan logged although the user agent did not parse and both
\* lookups failed.
C9_Witness ==
    /\ Logged("s1")
    /\ req["s1"].enrichment.ua = "raises"
    /\ req["s1"].enrichment.lite = "raises"
    /\ req["s1"].enrichment.api = "raises"
    /\ GeoFailed(req["s1"].enrichment)
    /\ Len(scans) = 2
    /\ urls[1].total_scans = 2
    /\ scans[2].country = "Unknown"
    /\ scans[2].device_type = "Unknown"

\* C10: when log_scan raised during redirect_url for a link that exists, is
\* active and has not expired, the handler still answers 302, to the preview
\* page when show_preview is set and to the destination otherwise.
C10_AnalyticsFailureStillRedirects ==
    \A s \in Sessions :
        (req[s].op = "redirect_url" /\ req[s].pc = "teardown" /\ req[s].scan_error) =>
            LET row == urls[FindByCode(req[s].short_code)]
            IN  /\ req[s].response.status = 302
                /\ req[s].response.location =
                       IF row.show_preview THEN PreviewLocation(req[s].short_code)
                       ELSE row.original_url

-----------------------------------------------------------------------------
(* Properties of the scans table and of the gate of the redirect handler.  *)

Answered302(s) ==
    /\ req[s].op = "redirect_url"
    /\ req[s].pc = "teardown"
    /\ req[s].response.status = 302

\* The request added one row to the scans table, for its link.
OneScanAdded(s) ==
    /\ Len(scans) = req[s].before.scans + 1
    /\ scans[Len(scans)].url_id = req[s].session.url.url_id

\* C11 as stated: every GET /{short_code} that is answered 302 has created
\* exactly one scans row for its link.
C11_EveryRedirectCreatesOneScan ==
    \A s \in Sessions : Answered302(s) => OneScanAdded(s)

\* C11: a GET /{short_code} that is answered 302 has created exactly one
\* scans row for its link when the link's analytics_enabled is set, and no
\* row when it is cleared.
C11_OneScanWhenAnalyticsEnabled ==
    \A s \in Sessions :
        Answered302(s) =>
            IF req[s].session.url.analytics_enabled
              THEN OneScanAdded(s)
              ELSE Len(scans) = req[s].before.scans

\* The second scan of a link, answered 302.
C11_Witness ==
    /\ Answered302("s1")
    /\ req["s1"].session.url.analytics_enabled
    /\ req["s1"].before.scans = 1
    /\ Len(scans) = 2
    /\ scans[2].url_id = req["s1"].session.url.url_id

RejectedRedirect(r) ==
    /\ r.op = "redirect_url"
    /\ r.pc = "teardown"
    /\ r.response.status \in {404, 410}

\* The step in which request s runs redirect_url's lookup and checks.
LooksUp(s) == req[s].pc = "idle" /\ req'[s].op = "redirect_url"

\* C12: GET /{short_code} answers 404 for a code no link has, else 410
\* (deactivated) for a link whose is_active is false, else 410 (expired) for
\* a link whose expiration_date lies before the current time, and passes
\* otherwise; a request answered 404 or 410 changes neither the scans table
\* nor any link's row.
C12_GateOrderAndNoScan ==
    [][\A s \in Sessions :
          /\ LooksUp(s) =>
               LET i == FindByCode(req'[s].short_code)
                   answer == req'[s].response
               IN  IF i = 0
                     THEN RejectedRedirect(req'[s]) /\ answer.status = 404
                   ELSE IF ~urls[i].is_active
                     THEN /\ RejectedRedirect(req'[s])
                          /\ answer = HTTPException(410, "This QR code has been deactivated")
                   ELSE IF /\ urls[i].expiration_date # Absent
                           /\ urls[i].expiration_date[1] < now
                     THEN /\ RejectedRedirect(req'[s])
                          /\ answer = HTTPException(410, "This QR code has expired")
                   ELSE req'[s].pc \in {"log_scan", "respond"}
          /\ (req'[s] # req[s] /\ (RejectedRedirect(req[s]) \/ RejectedRedirect(req'[s])))
                => UNCHANGED <<urls, scans>>
      ]_vars

\* A link scanned once and then requested after its expiration.
C12_Witness ==
    /\ RejectedRedirect(req["s1"])
    /\ req["s1"].response = HTTPException(410, "This QR code has expired")
    /\ urls[1].is_active
    /\ now > urls[1].expiration_date[1]
    /\ Len(scans) = 1
    /\ urls[1].total_scans = 1

\* C13: no step of a redirect, an update, a soft delete, a report or an
\* analytics query removes a row of the scans table or changes one of its
\* fields: the table only grows at its end.
C13_ScansAppendOnly ==
    [][/\ Len(scans') >= Len(scans)
       /\ \A j \in DOMAIN scans : scans'[j] = scans[j]]_vars

\* Two scans stored; since then the destination was changed, a report was
\* filed, the link was deactivated and an analytics query loaded both rows.
C13_Witness ==
    /\ Len(scans) = 2
    /\ Len(history) = 1
    /\ Len(reports) = 1
    /\ ~urls[1].is_active
    /\ agg.pc = "done"
    /\ Len(agg.loaded) = 2

\* The step in which delete_qr_code's commit goes through.
DeleteCommitted(s) ==
    /\ req[s].op = "delete_qr_code"
    /\ req[s].pc = "delete_commit"
    /\ req'[s].response.status = 200

\* C14: the commit of delete_qr_code by the owner sets the link's is_active
\* to false and its updated_at, and leaves every other column of the row,
\* every other row and the scans, history and reports tables as they were;
\* no other step of a delete request changes anything.  A GET /{short_code}
\* that finds is_active false is answered 410 and changes nothing, and
\* is_active only becomes true again by the commit of an update_qr_code
\* that set it.
C14_SoftDeleteOnlyDeactivates ==
    [][\A s \in Sessions :
          /\ DeleteCommitted(s) =>
               LET i == req[s].session.url.url_id
               IN  /\ urls' = [urls EXCEPT ![i].is_active = FALSE,
                                           ![i].updated_at = req[s].session.url.updated_at]
                   /\ UNCHANGED <<scans, history, reports>>
          /\ (/\ req'[s] # req[s]
              /\ (req[s].op = "delete_qr_code" \/ req'[s].op = "delete_qr_code")
              /\ ~DeleteCommitted(s)) => UNCHANGED dbvars
          /\ (/\ LooksUp(s)
              /\ FindByCode(req'[s].short_code) # 0
              /\ ~urls[FindByCode(req'[s].short_code)].is_active)
                => /\ req'[s].pc = "teardown"
                   /\ req'[s].response.status = 410
                   /\ UNCHANGED dbvars
          /\ (req[s].op = "redirect_url" /\ req[s].pc = "teardown"
                /\ req[s].response.status = 410 /\ req'[s] # req[s])
                => UNCHANGED dbvars
          /\ \A i \in DOMAIN urls :
               (~urls[i].is_active /\ urls'[i].is_active) =>
                   \E t \in Sessions :
                       /\ req[t].op = "update_qr_code"
                       /\ req[t].pc = "update_commit"
                       /\ req[t].session.url.url_id = i
                       /\ "is_active" \in req[t].session.dirty
                       /\ req[t].session.url.is_active
      ]_vars

\* A link scanned once, deactivated and requested again: 410, with its
\* counter and its scans row still there.
C14_Witness ==
    /\ req["s1"].op = "redirect_url"
    /\ req["s1"].pc = "teardown"
    /\ req["s1"].response = HTTPException(410, "This QR code has been deactivated")
    /\ ~urls[1].is_active
    /\ urls[1].total_scans = 1
    /\ Len(scans) = 1
    /\ urls[1].original_url = ExpiringLink.original_url

-----------------------------------------------------------------------------
(* Properties of the history table, of short codes and of scan parents.    *)

\* The history rows of link i, oldest first.
HistoryOf(i) ==
    LET Of(h) == h.url_id = i
    IN  SelectSeq(history, Of)

\* The step in which update_qr_code's commit goes through.
UpdateCommitted(s) ==
    /\ req[s].op = "update_qr_code"
    /\ req[s].pc = "update_commit"
    /\ req'[s].response.status = 200

\* C15: the commit of an update_qr_code that supplied a url appends one
\* history row, whose old_url is the link's destination before the commit
\* and whose new_url is its destination after it; no other step changes the
\* history table.  So the rows of a link, oldest first, form a chain (each
\* old_url is the new_url of the row before it) and the newest row's new_url
\* is the link's current destination.
C15_HistoryIsChain ==
    /\ [](\A i \in DOMAIN urls :
            LET h == HistoryOf(i)
            IN  /\ \A k \in 1..(Len(h) - 1) : h[k + 1].old_url = h[k].new_url
                /\ h # <<>> => h[Len(h)].new_url = urls[i].original_url)
    /\ [][LET changing == {s \in Sessions :
                             UpdateCommitted(s) /\ req[s].body.url # Absent}
          IN  IF changing = {} THEN history' = history
              ELSE \E s \in changing :
                     LET i == req[s].session.url.url_id
                     IN  history' = Append(history,
                                       [url_id |-> i,
                                        old_url |-> urls[i].original_url,
                                        new_url |-> urls'[i].original_url,
                                        changed_by |-> req[s].user])
        ]_vars

\* Request s is a create_qr whose INSERT went through.
Inserted(s) ==
    /\ req[s].op = "create_qr"
    /\ req[s].pc = "teardown"
    /\ req[s].response.status # 400
    /\ ~req[s].session.expired

\* C16: no two rows of the urls table have the same short code, and of two
\* create_qr requests that drew the same code, at most one has its INSERT
\* go through.
C16_ShortCodesUnique ==
    /\ \A i, j \in DOMAIN urls : urls[i].short_code = urls[j].short_code => i = j
    /\ \A s, t \in Sessions :
         (s # t /\ Inserted(s) /\ Inserted(t)) => req[s].short_code # req[t].short_code

\* Two create_qr requests that both found the first code free: one row was
\* inserted, the other request failed at its commit.
C16_Witness ==
    /\ req["s1"].op = "create_qr" /\ req["s2"].op = "create_qr"
    /\ req["s1"].short_code = req["s2"].short_code
    /\ Inserted("s1")
    /\ req["s2"].pc = "teardown"
    /\ req["s2"].session.expired
    /\ req["s2"].response.status = 500
    /\ Len(urls) = 1

\* C17: every row of the scans table carries the url_id of a row of the
\* urls table.
C17_ScanHasParent ==
    \A j \in DOMAIN scans : \E i \in DOMAIN urls : urls[i].url_id = scans[j].url_id

\* Two links with a scan each, one of them deactivated since.
C17_Witness ==
    /\ Quiescent
    /\ Len(urls) = 2
    /\ Len(scans) = 2
    /\ scans[1].url_id # scans[2].url_id
    /\ \E i \in DOMAIN urls : ~urls[i].is_active /\ ScanRowsOf(urls[i].url_id) = 1

-----------------------------------------------------------------------------
(* Properties of check_safe_browsing without a key and with a failing API, *)
(* and of the days parameter of the analytics routes.                      *)

\* C18: with no Safe Browsing key configured, check_safe_browsing answers
\* is_safe = true with no threats for every URL it is given, without
\* looking into the cache, calling the API or storing anything, and
\* validate_url then rejects a URL only when format validation did.
C18_UnconfiguredNeverBlocks ==
    ~sb_configured =>
        /\ cache = <<>>
        /\ \A c \in Callers :
             /\ "api" \notin vinvoked[c]
             /\ ~vseen[c].looked
             /\ vpc[c] \notin {"sb_api", "sb_store_entry", "sb_store_result",
                               "sb_store_ts", "raised"}
             /\ (vpc[c] = "after_sb" \/ PastSafeBrowsing(c)) =>
                    /\ vsb[c].is_safe
                    /\ vsb[c].threats = <<>>
             /\ PastSafeBrowsing(c) =>
                    /\ vres[c].is_safe = vfmt[c].is_valid
                    /\ vfmt[c].is_valid => vres[c].errors = <<>>

\* validate_url has returned for an https URL with no key configured: the
\* threat-list stage ran and the URL passed.
C18_Witness ==
    /\ ~sb_configured
    /\ vpc[1] = "done"
    /\ vurl[1] = U_https
    /\ "safe_browsing" \in vinvoked[1]
    /\ vsb[1].note = "Safe Browsing API not configured"
    /\ vres[1].is_safe

\* Call c asked the API and got no usable answer.
Fallback(c) ==
    /\ sb_configured
    /\ vpc[c] = "after_sb"
    /\ "api" \in vinvoked[c]
    /\ vsb[c].note # "none"

\* C19: when the API request times out, raises or answers with a status
\* other than 200, check_safe_browsing returns is_safe = true with no
\* threats instead of raising, and stores nothing: the cache is as the call
\* found it and holds no valid entry for the URL.  An entry that is not valid
\* does not become valid as time passes, and a call that finds no valid
\* entry asks the API: so the next call for the URL asks again.
C19_FallbackNotCached ==
    /\ [](\A c \in Callers :
            Fallback(c) =>
                /\ vsb[c].is_safe
                /\ vsb[c].threats = <<>>
                /\ ~CacheHit(cache, _get_cache_key(vurl[c]), now))
    /\ [][\A c \in Callers :
            /\ (vpc[c] = "sb_api" /\ vpc'[c] # "sb_api" /\ vpc'[c] # "sb_store_entry")
                 => /\ vpc'[c] = "after_sb"
                    /\ cache' = cache
            /\ (/\ sb_configured
                /\ vpc[c] = "sb_enter" /\ vpc'[c] # "sb_enter"
                /\ ~CacheHit(cache, _get_cache_key(vurl[c]), now))
                 => vpc'[c] = "sb_api"
            /\ \A url \in SbUrls :
                 (cache' = cache /\ ~CacheHit(cache, _get_cache_key(url), now))
                     => ~CacheHit(cache', _get_cache_key(url), now')
         ]_vars

\* The entry of a URL once flagged had aged out, the API failed, and the
\* call answered is_safe = true; the old entry is still there, unused.
C19_Witness ==
    /\ Fallback(1)
    /\ vsb[1].is_safe
    /\ vseen[1].found
    /\ vseen[1].age >= CACHE_TTL
    /\ ~cache[_get_cache_key(vurl[1])].safe_browsing.is_safe

\* C20: get_analytics and get_timeline, once the caller is authenticated,
\* answer 400 to a days value below 1 or above 365 without having looked
\* the link up, and get_analytics_summary and get_scans_timeline are only
\* ever called with 1 <= days <= 365: the days of the request, or 7 from
\* get_quick_summary.
C20_DaysWithinRange ==
    /\ \A s \in Sessions :
         /\ (/\ req[s].op \in {"get_analytics", "get_timeline"}
             /\ req[s].user # None
             /\ (req[s].days < 1 \/ req[s].days > 365))
              => /\ req[s].pc = "teardown"
                 /\ req[s].response.status = 400
                 /\ req[s].session.url.url_id = 0
         /\ (req[s].op \in AnalyticsRoutes /\ req[s].pc = "aggregate")
              => agg.days = (IF req[s].op = "get_quick_summary" THEN 7 ELSE req[s].days)
    /\ agg.pc # "idle" => (agg.days >= 1 /\ agg.days <= 365)

\* The owner of a link with two scans asked for a timeline of 366 days.
C20_Witness ==
    /\ req["s1"].op = "get_timeline"
    /\ req["s1"].user = "u1"
    /\ req["s1"].days = 366
    /\ req["s1"].pc = "teardown"
    /\ req["s1"].response.status = 400
    /\ agg.pc = "idle"
    /\ Len(scans) = 2

-----------------------------------------------------------------------------
(* Properties of the geolocation fallback and of the domain-age check.     *)

\* C21: for an address that _is_private_ip lets through, the remote service
\* is asked exactly when the local lookup answered country 'Unknown' or
\* none; the function returns the remote answer when its country is not
\* 'Unknown' and the local answer otherwise; after a local answer with a
\* country the remote service is not asked and the local answer is returned.
C21_RemoteOnlyWhenLocalUnknown ==
    /\ geo.pc = "ip_api" =>
           /\ geo.calls = {"geolite2"}
           /\ geo.lite.country \in {"Unknown", None}
    /\ (geo.pc = "done" /\ ~_is_private_ip(geo.ip, geo.ip_address)) =>
           /\ "geolite2" \in geo.calls
           /\ "ip_api" \in geo.calls <=> geo.lite.country \in {"Unknown", None}
           /\ geo.result = IF /\ "ip_api" \in geo.calls
                              /\ geo.api_result.country # "Unknown"
                            THEN geo.api_result
                            ELSE geo.lite

\* The local database had no country for a public address and the remote
\* service answered success with a null country: that answer is returned.
C21_Witness ==
    /\ geo.pc = "done"
    /\ geo.ip = V4(8, 8, 8, 8)
    /\ geo.lite.source = "geolite2"
    /\ geo.lite.country = "Unknown"
    /\ geo.calls = {"geolite2", "ip_api"}
    /\ geo.api_result.country = None
    /\ geo.result = geo.api_result

\* How often warning w stands in the list ws.
Occurrences(ws, w) == Cardinality({i \in DOMAIN ws : ws[i] = w})

\* C22: once validate_url has run the domain-age stage on a WHOIS answer of
\* a days, is_new is a < 30 and is_suspicious is a < 7; the warnings hold
\* the 7-day warning once when a < 7, the 30-day warning once when
\* 7 <= a < 30, and neither when a >= 30 or no age was available; errors
\* and is_safe are what the threat-list stage left.
C22_DomainAgeWarnsOnce ==
    \A c \in Callers :
        (/\ vkind[c] = "validate_url"
         /\ vpc[c] \in {"reach", "done"}
         /\ "domain_age" \in vinvoked[c]) =>
            LET d == vres[c].details.domain_age[1]
                a == d.age_days
            IN  /\ d.has_age => /\ d.is_new = (a < 30)
                                /\ d.is_suspicious = (a < 7)
                /\ Occurrences(vres[c].warnings, W_age_7) =
                       (IF d.has_age /\ a < 7 THEN 1 ELSE 0)
                /\ Occurrences(vres[c].warnings, W_age_30) =
                       (IF d.has_age /\ a >= 7 /\ a < 30 THEN 1 ELSE 0)
                /\ vres[c].is_safe = vsb[c].is_safe
                /\ vres[c].errors =
                       (IF vsb[c].is_safe THEN <<>> ELSE <<E_flagged(vsb[c].threats)>>)

\* A domain registered exactly thirty days ago: no warning, and the URL
\* passes.
C22_Witness ==
    /\ vkind[1] = "validate_url"
    /\ vpc[1] = "done"
    /\ "domain_age" \in vinvoked[1]
    /\ vres[1].details.domain_age[1].has_age
    /\ vres[1].details.domain_age[1].age_days = 30
    /\ Occurrences(vres[1].warnings, W_age_30) = 0
    /\ vres[1].is_safe

-----------------------------------------------------------------------------
(* Properties of the public endpoints and of ownership.                    *)

\* C23: a request to GET /{short_code} or GET /preview/{short_code} that
\* arrives for a link that is inactive or past its expiration date is
\* answered 410 and is handed neither a redirect to the destination nor the
\* page that shows it.
C23_InactiveOrExpiredRefused ==
    [][\A s \in Sessions :
         (/\ Free(s)
          /\ req'[s].op \in {"redirect_url", "preview_page"}
          /\ FindByCode(req'[s].short_code) # 0
          /\ \/ ~urls[FindByCode(req'[s].short_code)].is_active
             \/ Expired(urls[FindByCode(req'[s].short_code)], now))
          => /\ req'[s].pc = "teardown"
             /\ req'[s].response.status = 410
      ]_vars

\* The routes that look a link up by short code and owner.
PerCodeRoutes ==
    {"update_qr_code", "delete_qr_code", "get_url_history",
     "get_analytics", "get_timeline", "get_quick_summary"}

\* Request s is by an authenticated caller and past parameter validation.
Admitted(r) ==
    /\ r.op \in PerCodeRoutes
    /\ r.user # None
    /\ r.op \in {"get_analytics", "get_timeline"} => (r.days >= 1 /\ r.days <= 365)

\* C24: a request of an authenticated caller to update_qr_code,
\* delete_qr_code, get_url_history or an analytics route (with days in
\* range) for a code that is not a link of the caller's is answered 404 at
\* its lookup; whatever a request to these routes changes, it changes in a
\* link whose user_id is the caller's, it reads the scans and the history
\* of such a link only, and a caller without a token is answered 401.  A
\* link whose user_id is null is never changed.
C24_OnlyOwnerActs ==
    /\ [](\A s \in Sessions :
            /\ (Admitted(req[s]) /\ req[s].session.url.url_id # 0) =>
                   /\ req[s].session.url.user_id = req[s].user
                   /\ req[s].session.url.short_code = req[s].short_code
            /\ (Admitted(req[s]) /\ req[s].pc = "aggregate") =>
                   urls[agg.url_id].user_id = req[s].user
            /\ (req[s].op \in PerCodeRoutes /\ req[s].user = None) =>
                   /\ req[s].pc = "teardown"
                   /\ req[s].response.status = 401)
    /\ [][/\ \A s \in Sessions :
               /\ (/\ Free(s)
                   /\ Admitted(req'[s])
                   /\ \/ FindByCode(req'[s].short_code) = 0
                      \/ urls[FindByCode(req'[s].short_code)].user_id # req'[s].user)
                    => /\ req'[s].pc = "teardown"
                       /\ req'[s].response.status = 404
                       /\ UNCHANGED <<dbvars, agg>>
               /\ (req'[s] # req[s] /\ req[s].op \in PerCodeRoutes) =>
                    /\ \A i \in DOMAIN urls :
                          urls'[i] # urls[i] => urls[i].user_id = req[s].user
                    /\ history' # history =>
                          urls[history'[Len(history')].url_id].user_id = req[s].user
          /\ Len(urls') = Len(urls)
          /\ \A i \in DOMAIN urls : urls[i].user_id = None => urls'[i] = urls[i]
        ]_vars

\* u1 has changed the destination of its own link and then asked to
\* deactivate the link made without a token: 404, and that link is as it
\* was.
C24_Witness ==
    /\ req["s1"].op = "delete_qr_code"
    /\ req["s1"].user = "u1"
    /\ req["s1"].short_code = AnonymousLink.short_code
    /\ req["s1"].response.status = 404
    /\ urls[1].original_url = U_https
    /\ urls[2] = AnonymousLink

-----------------------------------------------------------------------------
(* Properties of failing updates and creations.                            *)

\* C25: an update_qr_code by the owner whose body holds a url that format
\* validation rejects is answered 400 at once, with nothing assigned and
\* no history row pending; and no step of an update request that is
\* answered 400 (the threat list may also reject the url) changes a row of
\* any table, whatever other fields the body held.
C25_RejectedUpdateChangesNothing ==
    [][\A s \in Sessions :
         /\ (/\ Free(s)
             /\ req'[s].op = "update_qr_code"
             /\ FindByCode(req'[s].short_code) # 0
             /\ urls[FindByCode(req'[s].short_code)].user_id = req'[s].user
             /\ req'[s].body.url # Absent
             /\ ~validate_url_format(req'[s].body.url[1]).is_valid)
              => req'[s].response.status = 400
         /\ (/\ req'[s] # req[s]
             /\ "update_qr_code" \in {req[s].op, req'[s].op}
             /\ 400 \in {req[s].response.status, req'[s].response.status})
              => /\ UNCHANGED dbvars
                 /\ req'[s].session.dirty = {}
                 /\ req'[s].session.new_history = <<>>
      ]_vars

\* The owner sent http://a/data:x together with show_preview = false: 400,
\* and the link still shows its preview.
C25_Witness ==
    /\ req["s1"].op = "update_qr_code"
    /\ req["s1"].pc = "teardown"
    /\ req["s1"].response.status = 400
    /\ req["s1"].body.url = Some(U_pat)
    /\ req["s1"].body.show_preview = Some(FALSE)
    /\ urls[1].show_preview
    /\ urls[1].original_url = U_http
    /\ history = <<>>

\* C26: the step that ends a create_qr request either adds one row to the
\* urls table and answers 200, or adds nothing and answers an error.
C26_CreateAllOrNothing ==
    [][\A s \in Sessions :
         (/\ req[s].op = "create_qr"
          /\ req[s].pc # "teardown"
          /\ req'[s].pc = "teardown")
          => \/ /\ Len(urls') = Len(urls) + 1
                /\ req'[s].response.status = 200
             \/ /\ urls' = urls
                /\ req'[s].response.status # 200
      ]_vars

-----------------------------------------------------------------------------
(* Properties of the cache under concurrent calls, of expiry, of the       *)
(* timeline and of format validation.                                      *)

PastExpiration(row, t) == row.expiration_date # <<>> /\ t > row.expiration_date[1]

\* C28: no step of an update, a deactivation, a redirect or a preview
\* changes a link's expiration_date or removes the link, and the clock does
\* not go back: a link past its expiration stays so.  A GET /{short_code}
\* is answered 'expired' only for such a link, and every GET /{short_code}
\* for such a link is answered 410.
C28_ExpiryIsPermanent ==
    [][/\ Len(urls') = Len(urls)
       /\ \A i \in DOMAIN urls :
            /\ urls'[i].expiration_date = urls[i].expiration_date
            /\ urls'[i].short_code = urls[i].short_code
            /\ PastExpiration(urls[i], now) => PastExpiration(urls'[i], now')
       /\ \A s \in Sessions :
            (req[s].pc = "idle" /\ req'[s].op = "redirect_url") =>
                LET i == FindByCode(req'[s].short_code)
                IN  /\ (i # 0 /\ PastExpiration(urls[i], now)) =>
                           /\ req'[s].pc = "teardown"
                           /\ req'[s].response.status = 410
                    /\ (/\ req'[s].response.status = 410
                        /\ req'[s].response.detail = "This QR code has expired")
                         => (i # 0 /\ PastExpiration(urls[i], now))
      ]_vars

\* The link expired, was deactivated and reactivated by its owner, and a
\* GET /{short_code} after that is answered 'expired'.
C28_Witness ==
    /\ req["s1"].op = "redirect_url"
    /\ req["s1"].response.status = 410
    /\ req["s1"].response.detail = "This QR code has expired"
    /\ urls[1].is_active
    /\ urls[1].updated_at > urls[1].expiration_date[1]

\* The sum of the counts of a timeline: one pair for every unit counted.
SumOfCounts(timeline) ==
    Cardinality(UNION {{<<i, k>> : k \in 1..timeline[i].count} : i \in DOMAIN timeline})

\* C29: when get_analytics_summary is done, every scan it loaded falls on
\* the date of exactly one timeline entry, and the counts of the entries
\* add up to total_scans, the number of scans loaded.
C29_TimelineSumsToTotal ==
    (agg.pc = "done" /\ agg.kind = "get_analytics_summary") =>
        /\ \A j \in DOMAIN agg.loaded :
             Cardinality({i \in DOMAIN agg.timeline :
                            agg.timeline[i].date =
                                strftime(date(agg.loaded[j].scanned_at))}) = 1
        /\ SumOfCounts(agg.timeline) = Len(agg.loaded)

\* Two scans of different days were loaded and midnight passed between the
\* query and the fill loop.
C29_Witness ==
    /\ agg.pc = "done"
    /\ agg.kind = "get_analytics_summary"
    /\ Len(agg.loaded) = 2
    /\ date(agg.loaded[1].scanned_at) # date(agg.loaded[2].scanned_at)
    /\ Len(agg.timeline) = agg.days + 2
    /\ SumOfCounts(agg.timeline) = 2

\* The lower-cased text of url holds one of the four patterns.
HoldsPattern(url) ==
    \E p \in {P_javascript, P_data, P_vbscript, P_file} :
        \E i \in 1..Len(url) :
            /\ i + Len(p) - 1 <= Len(url)
            /\ \A k \in 1..Len(p) : LowerChar(url[i + k - 1]) = p[k]

\* C30: validate_url_format rejects every URL whose lower-cased text holds
\* 'javascript:', 'data:', 'vbscript:' or 'file://' at any position, and
\* accepts every other URL that urlparse splits into the scheme http or
\* https and a network location that is not empty (a URL urlparse refuses
\* has neither).
C30_PatternAnywhereRejected ==
    \A c \in Callers :
        vkind[c] = "validate_url" =>
            /\ HoldsPattern(vurl[c]) => ~vfmt[c].is_valid
            /\ (/\ ~HoldsPattern(vurl[c])
                /\ ~urlparse(vurl[c]).raises
                /\ urlparse(vurl[c]).scheme \in {S_http, S_https}
                /\ urlparse(vurl[c]).netloc # <<>>) => vfmt[c].is_valid
            /\ vfmt[c].is_valid =>
                 /\ ~HoldsPattern(vurl[c])
                 /\ urlparse(vurl[c]).scheme \in {S_http, S_https}
                 /\ urlparse(vurl[c]).netloc # <<>>

\* HTTP://a/DATA:x was rejected for the pattern in its path.
C30_Witness ==
    /\ vkind[1] = "validate_url"
    /\ vurl[1] = U_PAT
    /\ vpc[1] = "done"
    /\ vfmt[1] = [is_valid |-> FALSE,
                  reason |-> <<"Suspicious URL pattern detected: ", P_data>>]
    /\ ~vres[1].is_safe

====
